---- MODULE Spec2Model ----
(***************************************************************************)
(* Row normalisation and the three row-transform pipelines of the          *)
(* spreadsheet processor (backend/server.js, and the Insag CNE IF pipeline *)
(* of the v3 revision of the same server).                                 *)
(*                                                                         *)
(* A JavaScript string is modelled as a sequence of one-character strings, *)
(* so that every conversion (digit stripping, formatting, lower-casing,    *)
(* accent stripping, substring search) is computed character by character. *)
(* A row (a JavaScript object with string keys) is modelled as a sequence  *)
(* of [k, v] pairs in insertion order, which is also the order of          *)
(* Object.values.  Cell values are strings; a numeric cell is the sequence  *)
(* of its digits behind the tag "number".                                  *)
(*                                                                         *)
(* The second half models Compare & Clean and the /api/process request     *)
(* handler: validation, the processing branch, sendMail racing the         *)
(* 30-second timer, and the single response.                               *)
(***************************************************************************)
EXTENDS Integers, Sequences, FiniteSets, TLC

VARIABLES
    pipeline,   \* the pipeline that is running ("none" in the function harness)
    sheet,      \* rows of the flattened input stream (files, sheets, rows)
    idx,        \* position of the forEach loop in sheet
    out,        \* rows pushed to the pipeline's output so far
    row,        \* function harness: the row object the functions work on
    prev,       \* function harness: the argument object as the last call left it
    last,       \* function harness: name of the function called last
    calls,      \* function harness: number of calls made so far
    req,        \* the request: files, options, email, and the clock's year
    pc,         \* position of the request handler (or of the compareAndClean call)
    processed,  \* the handler's processed array: results awaiting delivery
    response,   \* the response sent to the client (status 0: none yet)
    error,      \* message of the exception thrown last (empty: none)
    mail,       \* state of the sendMail call: "none", "inflight", "delivered", "failed"
    timer,      \* state of the 30-second timer: "off", "armed", "fired"
    parsed,     \* names of the files handed to XLSX.read so far
    sent,       \* the attachments handed to sendMail, one entry per sendMail call
    form        \* the upload form's state: files, selectedOptions, email, processing, status

reqVars == <<req, pc, processed, response, error, mail, timer, parsed, sent>>

vars == <<pipeline, sheet, idx, out, row, prev, last, calls,
          req, pc, processed, response, error, mail, timer, parsed, sent, form>>

(***************************************************************************)
(* Characters and strings                                                  *)
(***************************************************************************)
Digits == {"0", "1", "2", "3", "4", "5", "6", "7", "8", "9"}

UpperCase == <<"A","B","C","D","E","F","G","H","I","J","K","L","M","N","O","P","Q","R","S","T","U","V","W","X","Y","Z","É">>

LowerCase == <<"a","b","c","d","e","f","g","h","i","j","k","l","m","n","o","p","q","r","s","t","u","v","w","x","y","z","é">>

Accented == <<"é","è","ê","à","ç">>

Unaccented == <<"e","e","e","a","c">>

Letters == {UpperCase[i] : i \in 1..26} \cup {LowerCase[i] : i \in 1..26}

\* \w of a JavaScript regular expression
WordChars == Letters \cup Digits \cup {"_"}

\* \s of a JavaScript regular expression, within the alphabet of the model
SpaceChars == {" "}

IndexIn(seq, c) == IF \E i \in 1..Len(seq) : seq[i] = c
                   THEN CHOOSE i \in 1..Len(seq) : seq[i] = c
                   ELSE 0

ToLowerChar(c) == IF IndexIn(UpperCase, c) = 0 THEN c ELSE LowerCase[IndexIn(UpperCase, c)]

toLowerCase(s) == [i \in 1..Len(s) |-> ToLowerChar(s[i])]

\* .normalize('NFD').replace(/[\u0300-\u036f]/g, '')
StripAccentChar(c) == IF IndexIn(Accented, c) = 0 THEN c ELSE Unaccented[IndexIn(Accented, c)]

stripAccents(s) == [i \in 1..Len(s) |-> StripAccentChar(s[i])]

startsWith(s, p) == Len(s) >= Len(p) /\ SubSeq(s, 1, Len(p)) = p

includes(s, sub) == \E i \in 0..(Len(s) - Len(sub)) : SubSeq(s, i + 1, i + Len(sub)) = sub

slice(s, n) == SubSeq(s, n + 1, Len(s))

IsSpace(c) == c \in SpaceChars

RECURSIVE trimStart(_)
trimStart(s) == IF s # <<>> /\ IsSpace(Head(s)) THEN trimStart(Tail(s)) ELSE s

RECURSIVE trimEnd(_)
trimEnd(s) == IF s # <<>> /\ IsSpace(s[Len(s)]) THEN trimEnd(SubSeq(s, 1, Len(s) - 1)) ELSE s

trim(s) == trimEnd(trimStart(s))

\* .replace(/\s+/g, ' ')
RECURSIVE collapseSpaces(_)
collapseSpaces(s) ==
    IF s = <<>> THEN <<>>
    ELSE IF IsSpace(Head(s))
         THEN <<" ">> \o collapseSpaces(trimStart(s))
         ELSE <<Head(s)>> \o collapseSpaces(Tail(s))

(***************************************************************************)
(* Rows                                                                    *)
(***************************************************************************)
Keys(r) == {r[i].k : i \in 1..Len(r)}

Has(r, k) == k \in Keys(r)

KeyIndex(r, k) == CHOOSE i \in 1..Len(r) : r[i].k = k

\* r[k]; the empty string stands for undefined where the code only tests
\* truthiness or converts with String(x || '')
Get(r, k) == IF Has(r, k) THEN r[KeyIndex(r, k)].v ELSE <<>>

\* r[k] !== undefined && r[k] !== ''  (also the truthiness of a string cell)
NonEmpty(r, k) == Has(r, k) /\ Get(r, k) # <<>>

\* r[k] = v : an existing key keeps its position, a new key is appended
Set(r, k, v) == IF Has(r, k)
                THEN [r EXCEPT ![KeyIndex(r, k)] = [k |-> k, v |-> v]]
                ELSE Append(r, [k |-> k, v |-> v])

\* delete r[k]
RECURSIVE Delete(_, _)
Delete(r, k) ==
    IF r = <<>> THEN <<>>
    ELSE IF Head(r).k = k THEN Delete(Tail(r), k)
         ELSE <<Head(r)>> \o Delete(Tail(r), k)

RECURSIVE DeleteAll(_, _)
DeleteAll(r, cols) ==
    IF cols = <<>> THEN r ELSE DeleteAll(Delete(r, Head(cols)), Tail(cols))

\* candidates.find((k) => row[k] !== undefined && row[k] !== ''); "" is undefined
RECURSIVE FindCandidate(_, _)
FindCandidate(r, candidates) ==
    IF candidates = <<>> THEN ""
    ELSE IF NonEmpty(r, Head(candidates)) THEN Head(candidates)
         ELSE FindCandidate(r, Tail(candidates))

Range(seq) == {seq[i] : i \in 1..Len(seq)}

(***************************************************************************)
(* processRow                                                              *)
(***************************************************************************)
\* variant: the columns are deleted from the argument itself, without a copy
processRowInPlace(r, cols) == [copy |-> DeleteAll(r, cols), arg |-> DeleteAll(r, cols)]

\* copy: the returned object; arg: the argument object after the call
processRow(r, cols) == [copy |-> DeleteAll(r, cols), arg |-> r]

(***************************************************************************)
(* normalisePhone                                                          *)
(***************************************************************************)
PhoneCandidates == <<"phone_number", "phone", "Phone", "Phone Number",
                     "phone number", "Phone_Number", "PhoneNumber">>

\* .replace(/p:\+|p:/gi, '')
RECURSIVE stripMarkers(_)
stripMarkers(s) ==
    IF s = <<>> THEN <<>>
    ELSE IF Len(s) >= 3 /\ s[1] \in {"p", "P"} /\ s[2] = ":" /\ s[3] = "+"
         THEN stripMarkers(slice(s, 3))
    ELSE IF Len(s) >= 2 /\ s[1] \in {"p", "P"} /\ s[2] = ":"
         THEN stripMarkers(slice(s, 2))
    ELSE <<Head(s)>> \o stripMarkers(Tail(s))

\* .replace(/\D/g, '')
stripNonDigits(s) == SelectSeq(s, LAMBDA c : c \in Digits)

cleanPhone(s) == trim(stripNonDigits(stripMarkers(s)))

\* variant: the prefix tests are separate ifs, not an if / else-if chain
stripCountryCodeNoElse(phone) ==
    LET a == IF startsWith(phone, <<"0","3","3">>) THEN slice(phone, 3) ELSE phone
        b == IF startsWith(a, <<"3","3">>) THEN slice(a, 2) ELSE a
        c == IF startsWith(b, <<"2","1","3">>) THEN slice(b, 3) ELSE b
    IN  IF startsWith(c, <<"1">>) THEN slice(c, 1) ELSE c

stripCountryCode(phone) ==
    IF startsWith(phone, <<"0","3","3">>) THEN slice(phone, 3)
    ELSE IF startsWith(phone, <<"3","3">>) THEN slice(phone, 2)
    ELSE IF startsWith(phone, <<"2","1","3">>) THEN slice(phone, 3)
    ELSE IF startsWith(phone, <<"1">>) THEN slice(phone, 1)
    ELSE phone

padLeadingZero(phone) ==
    IF Len(phone) = 9 /\ ~startsWith(phone, <<"0">>) THEN <<"0">> \o phone ELSE phone

\* variant: groups of three, three and four digits
formatPhoneGroups334(phone) ==
    IF Len(phone) = 10
    THEN SubSeq(phone, 1, 3) \o <<" ">> \o SubSeq(phone, 4, 6) \o <<" ">> \o slice(phone, 6)
    ELSE phone

formatPhone(phone) ==
    IF Len(phone) = 10
    THEN SubSeq(phone, 1, 4) \o <<" ">> \o SubSeq(phone, 5, 7) \o <<" ">> \o slice(phone, 7)
    ELSE phone

\* the locals of one call of normalisePhone on a row with a candidate
phoneLocals(r) ==
    LET key == FindCandidate(r, PhoneCandidates)
        cleaned == cleanPhone(Get(r, key))
        stripped == stripCountryCode(cleaned)
        padded == padLeadingZero(stripped)
    IN  [key |-> key, cleaned |-> cleaned, stripped |-> stripped,
         padded |-> padded, phone |-> formatPhone(padded)]

normalisePhone(r) ==
    LET l == phoneLocals(r)
        written == IF Len(l.phone) > 0 THEN Set(r, "phone_number", l.phone) ELSE r
    IN  IF l.key = "" THEN r
        ELSE IF l.key # "phone_number" THEN Delete(written, l.key) ELSE written

(***************************************************************************)
(* normaliseFullName                                                       *)
(***************************************************************************)
NameCandidates == <<"full_name", "fullname", "Full Name", "Full_Name", "full name", "FullName">>

normaliseFullName(r) ==
    LET key == FindCandidate(r, NameCandidates)
        written == Set(r, "full_name", trim(Get(r, key)))
    IN  IF key = "" THEN r
        ELSE IF key # "full_name" THEN Delete(written, key) ELSE written

(***************************************************************************)
(* normalizeText and assignProductFromText                                 *)
(***************************************************************************)
\* .replace(/[^\w\s]/g, ' ')
foldPunctuation(s) ==
    [i \in 1..Len(s) |-> IF s[i] \in WordChars \cup SpaceChars THEN s[i] ELSE " "]

\* variant: the text is not lower-cased
normalizeTextKeepCase(text) ==
    IF text = <<>> THEN <<>>
    ELSE trim(collapseSpaces(foldPunctuation(stripAccents(text))))

normalizeText(text) ==
    IF text = <<>> THEN <<>>
    ELSE trim(collapseSpaces(foldPunctuation(stripAccents(toLowerCase(text)))))

RECURSIVE join(_, _)
join(strs, sep) ==
    IF strs = <<>> THEN <<>>
    ELSE IF Len(strs) = 1 THEN strs[1]
    ELSE strs[1] \o sep \o join(Tail(strs), sep)

\* Object.values(row).filter(non-empty).map(normalizeText).join(' ')
allText(r) ==
    LET vals == [i \in 1..Len(r) |-> r[i].v]
        kept == SelectSeq(vals, LAMBDA v : v # <<>>)
    IN  join([i \in 1..Len(kept) |-> normalizeText(kept[i])], <<" ">>)

MainCompany == <<"b","a","s","e",".","m","a","i","n","_","c","o","m","p","a","n","y">>

ProductDmk == <<"i","n","s","f","a","g","_","c","r","m","_","s","a","l","e",".","p","r","o","d","u","c","t","_","t","e","m","p","l","a","t","e","_","m","b","a","_","d","m","k">>

ProductMrk == <<"i","n","s","f","a","g","_","c","r","m","_","s","a","l","e",".","p","r","o","d","u","c","t","_","t","e","m","p","l","a","t","e","_","m","s","_","m","r","k">>

patterns == <<
    [keywords |-> <<<<"d","m","b">>, <<"d","i","g","i","t","a","l"," ","m","a","r","k","e","t","i","n","g">>, <<"m","a","r","k","e","t","i","n","g"," ","d","i","g","i","t","a","l">>>>,
     product |-> ProductDmk, company |-> MainCompany],
    [keywords |-> <<<<"m","a","r","k","e","t","i","n","g">>>>,
     product |-> ProductMrk, company |-> MainCompany],
    [keywords |-> <<<<"r","h">>, <<"r","e","s","s","o","u","r","c","e","s"," ","h","u","m","a","i","n","e","s">>, <<"r","e","s","o","u","r","c","e","s"," ","h","u","m","a","i","n","e","s">>>>,
     product |-> <<"i","n","s","f","a","g","_","c","r","m","_","s","a","l","e",".","p","r","o","d","u","c","t","_","t","e","m","p","l","a","t","e","_","m","s","_","r","h">>, company |-> MainCompany],
    [keywords |-> <<<<"f","i","n","a","n","c","e">>, <<"f","i","n","a","n","c","i","e","r">>>>,
     product |-> <<"i","n","s","f","a","g","_","c","r","m","_","s","a","l","e",".","p","r","o","d","u","c","t","_","t","e","m","p","l","a","t","e","_","m","s","_","f","i","n">>, company |-> MainCompany],
    [keywords |-> <<<<"m","a","s","t","e","r"," ","a","s","s","u","r","a","n","c","e","s">>, <<"m","m","a">>, <<"a","s","s","u","r","a","n","c","e">>>>,
     product |-> <<"i","n","s","f","a","g","_","c","r","m","_","s","a","l","e",".","p","r","o","d","u","c","t","_","t","e","m","p","l","a","t","e","_","m","s","_","m","a","s">>, company |-> MainCompany],
    [keywords |-> <<<<"a","g","e","n","t"," ","g","e","n","e","r","a","l"," ","d"," ","a","s","s","u","r","a","n","c","e">>, <<"a","g","e","n","t"," ","g","e","n","e","r","a","l"," ","d","a","s","s","u","r","a","n","c","e">>, <<"a","g","a">>>>,
     product |-> <<"i","n","s","f","a","g","_","c","r","m","_","s","a","l","e",".","p","r","o","d","u","c","t","_","t","e","m","p","l","a","t","e","_","b","a","c","_","a","g","a">>, company |-> MainCompany],
    [keywords |-> <<<<"d","i","g","i","t","a","l">>>>,
     product |-> ProductDmk, company |-> MainCompany],
    [keywords |-> <<<<"G","l","o","b","a","l">>, <<"m","a","n","a","g","e","m","e","n","t"," ","o","p","é","r","a","t","i","o","n","n","e","l">>, <<"G","M","B","A">>>>,
     product |-> ProductDmk, company |-> MainCompany] >>

\* some keyword of the i-th group is a substring of the search text
groupMatches(text, i) == \E j \in 1..Len(patterns[i].keywords) : includes(text, patterns[i].keywords[j])

\* the group at which the two nested loops return, 0 when they run to the end
RECURSIVE matchFrom(_, _)
matchFrom(text, i) ==
    IF i > Len(patterns) THEN 0
    ELSE IF groupMatches(text, i) THEN i
    ELSE matchFrom(text, i + 1)

\* variant: the loops do not return at the first match, the last matching group wins
matchingGroupLast(text) ==
    IF \E i \in 1..Len(patterns) : groupMatches(text, i)
    THEN CHOOSE i \in 1..Len(patterns) :
            groupMatches(text, i) /\ \A j \in (i + 1)..Len(patterns) : ~groupMatches(text, j)
    ELSE 0

matchingGroup(text) == matchFrom(text, 1)

\* variant: no early return when 'product cible' is already set
assignProductFromTextOverwrite(r) ==
    LET g == matchingGroup(allText(r))
        assigned == Set(r, "product cible", patterns[g].product)
    IN  IF g = 0 THEN r
        ELSE IF ~NonEmpty(assigned, "company")
             THEN Set(assigned, "company", patterns[g].company)
             ELSE assigned

assignProductFromText(r) ==
    IF NonEmpty(r, "product cible") THEN r
    ELSE LET g == matchingGroup(allText(r))
             assigned == Set(r, "product cible", patterns[g].product)
         IN  IF g = 0 THEN r
             ELSE IF ~NonEmpty(assigned, "company")
                  THEN Set(assigned, "company", patterns[g].company)
                  ELSE assigned

normaliseRow(r) == assignProductFromText(normaliseFullName(normalisePhone(r)))

(***************************************************************************)
(* The three pipelines: the callback each runs on one row of the stream.   *)
(* A callback returns [emit, r]: whether it pushed a row to out, and the   *)
(* row it pushed.                                                          *)
(***************************************************************************)
LacInfoCols == <<"id", "created_time", "ad_id", "ad_name", "adset_id", "adset_name",
                 "campaign_id", "campaign_name", "form_id", "platform", "is_organic",
                 "lead_status">>

InsagCneIfCols == <<"id", "created_time", "ad_id", "ad_name", "adset_id", "adset_name",
                    "campaign_id", "campaign_name", "form_id", "is_organic", "platform">>

AwarenessCols == <<"id", "created_time", "ad_id", "ad_name", "adset_id", "adset_name",
                   "campaign_id", "campaign_name", "form_id", "form_name", "is_organic">>

longCol == "par_quelles_formation_êtes-vous_intéressé_?"

Piste == <<"P","i","s","t","e">>

LicenceInformatique == <<"L","i","c","e","n","c","e"," ","I","n","f","o","r","m","a","t","i","q","u","e">>

LicenceInformatiqueAwareness == <<"L","i","c","e","n","c","e"," ","i","n","f","o","r","m","a","t","i","q","u","e">>

LicenceCommerce == <<"L","i","c","e","n","c","e"," ","S","c","i","e","n","c","e"," ","C","o","m","m","e","r","c","i","a","l"," ","e","t"," ","m","a","r","k","e","t","i","n","g">>

LicenceFinance == <<"L","i","c","e","n","c","e"," ","F","i","n","a","n","c","e"," ","e","t"," ","C","o","m","p","t","a","b","i","l","i","t","é">>

MasterMarketing == <<"M","a","s","t","e","r"," ","M","a","r","k","e","t","i","n","g"," ","M","a","n","a","g","e","m","e","n","t">>

MasterDigital == <<"M","a","s","t","e","r"," ","T","r","a","n","s","f","o","r","m","a","t","i","o","n"," ","d","i","g","i","t","a","l"," ","e","t"," ","E","-","B","u","s","i","n","e","s","s">>

MbaGlobalCne == <<"M","B","A"," ","G","l","o","b","a","l"," ","C","N","E">>

MbaGlobalAlger == <<"M","B","A"," ","G","l","o","b","a","l"," ","A","l","g","e","r">>

BusinessUnit == <<"i","n","s","f","a","g","_","c","r","m","_","s","a","l","e",".","b","u","s","i","n","e","s","s","_","u","n","i","t","_","d","i","p","l","o","m","a","_","c","o","u","r","s","e","s">>

SecondaryCompany == <<"i","n","s","f","a","g","_","r","o","o","t",".","s","e","c","o","n","d","a","r","y","_","c","o","m","p","a","n","y">>

ProductMos == <<"i","n","s","f","a","g","_","c","r","m","_","s","a","l","e",".","p","r","o","d","u","c","t","_","t","e","m","p","l","a","t","e","_","m","b","a","_","m","o","s">>

ProductSfe == <<"i","n","s","f","a","g","_","c","r","m","_","s","a","l","e",".","p","r","o","d","u","c","t","_","t","e","m","p","l","a","t","e","_","e","m","b","a","_","s","f","e">>

DefaultSource == <<"_","_","e","x","p","o","r","t","_","_",".","u","t","m","_","s","o","u","r","c","e","_","1","1","_","b","1","7","e","b","5","a","0">>

DefaultTeam == <<"_","_","e","x","p","o","r","t","_","_",".","c","r","m","_","t","e","a","m","_","6","_","3","c","d","7","9","2","d","b">>

\* if (r[col] !== undefined) { r.opportunité = r[col]; delete r[col]; }
renameToOpportunity(r, col) ==
    IF Has(r, col) THEN Delete(Set(r, "opportunité", Get(r, col)), col) ELSE r

\* variant: the keywords are searched in the value as typed, not lower-cased
relabelLacInfoAsTyped(opp) ==
    IF \/ includes(opp, <<"l","i","n","f","o">>)
       \/ includes(opp, <<"l","i","c","e","n","c","e"," ","i","n","f","o">>)
       \/ includes(opp, <<"l","i","c","e","n","c","e"," ","i","n","f","o","r","m","a","t","i","q","u","e">>)
       \/ includes(opp, <<"l","i","c","e","n","c","e"," ","i","n","f","o"," ","2","0","2","5">>)
    THEN LicenceInformatique
    ELSE IF \/ includes(opp, <<"l","a","c">>)
            \/ includes(opp, <<"l","i","c","e","n","c","e"," ","c","o","m","m","e","r","c","e">>)
            \/ includes(opp, <<"l","i","c","e","n","c","e"," ","s","c","i","e","n","c","e"," ","c","o","m","m","e","r","c","i","a","l","e","s">>)
            \/ includes(opp, <<"l","i","c","e","n","c","e"," ","s","c","i","e","n","c","e","s"," ","c","o","m","m","e","r","c","i","a","l","e","s"," ","a","n","n","é","e"," ","2","5","-","2","6">>)
    THEN LicenceCommerce
    ELSE IF includes(opp, <<"l","f","c">>) \/ includes(opp, <<"l","i","c","e","n","c","e"," ","f","i","n","a","n","c","e">>)
    THEN LicenceFinance
    ELSE opp

\* the if / else-if chain of processLacInfo on a non-empty opportunité
relabelLacInfo(opp) ==
    LET v == toLowerCase(opp)
    IN  IF \/ includes(v, <<"l","i","n","f","o">>)
           \/ includes(v, <<"l","i","c","e","n","c","e"," ","i","n","f","o">>)
           \/ includes(v, <<"l","i","c","e","n","c","e"," ","i","n","f","o","r","m","a","t","i","q","u","e">>)
           \/ includes(v, <<"l","i","c","e","n","c","e"," ","i","n","f","o"," ","2","0","2","5">>)
        THEN LicenceInformatique
        ELSE IF \/ includes(v, <<"l","a","c">>)
                \/ includes(v, <<"l","i","c","e","n","c","e"," ","c","o","m","m","e","r","c","e">>)
                \/ includes(v, <<"l","i","c","e","n","c","e"," ","s","c","i","e","n","c","e"," ","c","o","m","m","e","r","c","i","a","l","e","s">>)
                \/ includes(v, <<"l","i","c","e","n","c","e"," ","s","c","i","e","n","c","e","s"," ","c","o","m","m","e","r","c","i","a","l","e","s"," ","a","n","n","é","e"," ","2","5","-","2","6">>)
        THEN LicenceCommerce
        ELSE IF includes(v, <<"l","f","c">>) \/ includes(v, <<"l","i","c","e","n","c","e"," ","f","i","n","a","n","c","e">>)
        THEN LicenceFinance
        ELSE opp

\* the if / else-if chain of processAwareness on a non-empty opportunité
relabelAwareness(opp) ==
    LET v == toLowerCase(opp)
    IN  IF \/ includes(v, <<"l","i","n","f","o">>)
           \/ includes(v, <<"l","i","c","e","n","c","e"," ","i","n","f","o">>)
           \/ includes(v, <<"l","i","c","e","n","c","e","_","i","n","f","o","r","m","a","t","i","q","u","e">>)
        THEN LicenceInformatiqueAwareness
        ELSE IF \/ includes(v, <<"l","a","c">>)
                \/ includes(v, <<"l","i","c","e","n","c","e"," ","c","o","m","m","e","r","c","e">>)
                \/ includes(v, <<"l","i","c","e","n","c","e","_","c","o","m","m","e","r","c","e","_","&","_","m","a","r","k","e","t","i","n","g">>)
        THEN LicenceCommerce
        ELSE IF includes(v, <<"l","f","c">>) \/ includes(v, <<"l","i","c","e","n","c","e","_","f","i","n","a","n","c","e","_","e","t","_","c","o","m","p","t","a","b","i","l","i","t","é">>)
        THEN LicenceFinance
        ELSE IF includes(v, <<"m","a","s","t","e","r"," ","m","m">>) \/ includes(v, <<"m","a","s","t","e","r","_","m","a","r","k","e","t","i","n","g","_","&","_","m","a","n","a","g","e","m","e","n","t">>)
        THEN MasterMarketing
        ELSE IF includes(v, <<"m","a","s","t","e","r","_","e","n","_","t","r","a","n","s","f","o","r","m","a","t","i","o","n","_","d","i","g","i","t","a","l","e","_","e","t","_","e","-","b","u","s","i","n","e","s","s">>)
        THEN MasterDigital
        ELSE opp

\* processInsagCneIf: an if / else-if on the first two rules, then a separate if
relabelInsagCneIf(opp) ==
    LET first == IF includes(opp, <<"M","B","A"," ","G","l","o","b","a","l"," ","C","N","E","-","c","o","p","y">>) THEN MbaGlobalCne
                 ELSE IF opp = <<"C","N","E">> THEN MbaGlobalCne
                 ELSE opp
    IN  IF includes(opp, <<"M","B","A"," ","G","l","o","b","a","l"," ","O","c","t","o","b","r","e">>) THEN MbaGlobalAlger ELSE first

\* if (r.opportunité) { ... relabel ... }
relabel(r, label) ==
    IF NonEmpty(r, "opportunité") THEN Set(r, "opportunité", label) ELSE r

\* which branch of the category chain of processInsagCneIf is taken
insagCategory(r) ==
    LET opp == Get(r, "opportunité")
    IN  IF opp = MbaGlobalCne THEN "cne"
        ELSE IF includes(opp, <<"M","B","A"," ","G","l","o","b","a","l"," ","O","c","t","o","b","r","e"," ","2","4">>) \/ includes(opp, MbaGlobalAlger)
        THEN "alger"
        ELSE IF includes(opp, <<"E","x","é","c","u","t","i","v","e"," ","M","B","A"," ","F","i","n","a","n","c","e">>) THEN "finance"
        ELSE "none"

injectCategoryIfEmpty(r) ==
    LET c == insagCategory(r)
        company == IF c = "cne" THEN SecondaryCompany ELSE MainCompany
        product == IF c = "finance" THEN ProductSfe ELSE ProductMos
        r1 == IF NonEmpty(r, "company") THEN r ELSE Set(r, "company", company)
    IN  IF c = "none" THEN r
        ELSE IF NonEmpty(r1, "product cible") THEN r1 ELSE Set(r1, "product cible", product)

\* the fields the category chain of processInsagCneIf writes
injectCategory(r) ==
    LET c == insagCategory(r)
    IN  IF c = "cne"
        THEN Set(Set(r, "company", SecondaryCompany), "product cible", ProductMos)
        ELSE IF c = "alger"
        THEN Set(Set(Set(Set(r, "company", MainCompany), "source", DefaultSource),
                     "Equipe commercial", DefaultTeam), "product cible", ProductMos)
        ELSE IF c = "finance"
        THEN Set(Set(r, "company", MainCompany), "product cible", ProductSfe)
        ELSE r

injectDefaultsNever(r) == r

\* if (!r.source) ...; if (!r['Equipe commercial']) ...
injectDefaults(r) ==
    LET s == IF ~NonEmpty(r, "source") THEN Set(r, "source", DefaultSource) ELSE r
    IN  IF ~NonEmpty(s, "Equipe commercial") THEN Set(s, "Equipe commercial", DefaultTeam) ELSE s

\* variant: the classifier runs before the opportunity is relabeled
lacInfoRowClassifyFirst(rowIn) ==
    LET r0 == processRow(rowIn, LacInfoCols).copy
        r1 == Set(r0, "Type", Piste)
        r2 == renameToOpportunity(r1, "form_name")
        r3 == normaliseRow(r2)
    IN  [emit |-> TRUE, r |-> relabel(r3, relabelLacInfo(Get(r3, "opportunité")))]

lacInfoRow(rowIn) ==
    LET r0 == processRow(rowIn, LacInfoCols).copy
        r1 == Set(r0, "Type", Piste)
        r2 == renameToOpportunity(r1, "form_name")
        r3 == relabel(r2, relabelLacInfo(Get(r2, "opportunité")))
    IN  [emit |-> TRUE, r |-> normaliseRow(r3)]

insagCneIfRow(rowIn) ==
    LET r0 == processRow(rowIn, InsagCneIfCols).copy
        r1 == renameToOpportunity(r0, "form_name")
        r2 == relabel(r1, relabelInsagCneIf(Get(r1, "opportunité")))
        r3 == Set(r2, "bu", BusinessUnit)
        r4 == injectCategory(r3)
        r5 == normaliseRow(r4)
    IN  [emit |-> TRUE, r |-> injectDefaults(r5)]

awarenessRow(rowIn) ==
    LET r0 == processRow(rowIn, AwarenessCols).copy
        r1 == IF Has(r0, "platform") THEN Delete(Set(r0, "Type", Piste), "platform") ELSE r0
        r2 == renameToOpportunity(r1, longCol)
        r3 == relabel(r2, relabelAwareness(Get(r2, "opportunité")))
    IN  [emit |-> TRUE, r |-> normaliseRow(r3)]

(***************************************************************************)
(* processInsagCneIf of the v3 revision (unnamed/part_002): normaliseRow   *)
(* has no classifier, and rows of unlisted opportunities can be skipped.   *)
(***************************************************************************)
normaliseRowV3(r) == normaliseFullName(normalisePhone(r))

\* String(originalFormName).toLowerCase().includes('cne')
formNameContainsCNE(originalFormName) == includes(toLowerCase(originalFormName), <<"c","n","e">>)

\* variant: no row is skipped
skipNothing(r, originalFormName) == FALSE

\* the condition of the 'return' that skips a row without required fields
skipUnlisted(r, originalFormName) ==
    \/ formNameContainsCNE(originalFormName)
    \/ (~NonEmpty(r, "source") /\ ~NonEmpty(r, "Equipe commercial") /\ ~NonEmpty(r, "product cible"))

insagCneIfRowV3(rowIn) ==
    LET r0 == processRow(rowIn, InsagCneIfCols).copy
        originalFormName == Get(r0, "form_name")
        r1 == renameToOpportunity(r0, "form_name")
        r2 == relabel(r1, relabelInsagCneIf(Get(r1, "opportunité")))
        r3 == Set(r2, "bu", BusinessUnit)
        hasRequiredFields == insagCategory(r3) # "none"
        r4 == injectCategory(r3)
        r5 == normaliseRowV3(r4)
        r6 == IF formNameContainsCNE(originalFormName)
              THEN Set(r5, "company", SecondaryCompany) ELSE r5
    IN  IF hasRequiredFields THEN [emit |-> TRUE, r |-> injectDefaults(r6)]
        ELSE IF skipUnlisted(r6, originalFormName) THEN [emit |-> FALSE, r |-> r6]
        ELSE [emit |-> TRUE, r |-> r6]

(***************************************************************************)
(* Bounds and inputs                                                       *)
(***************************************************************************)
MaxDigits == 10     \* longest digit body of a phone cell

MaxCalls == 2       \* calls made in a row on one row object

MaxRows == 2        \* rows of the input stream of a pipeline run

Cell(k, v) == [k |-> k, v |-> v]

DigitPatterns == {<<"7","7","0","5","5","5","9","9","9","1","2","3","4">>, <<"0","7","7","0","5","5","5","9","9","9","1","2","3">>, <<"0","3","3","1","2","3","4","5","6","7","8","9","0">>, <<"1","2","3","4","5","6","7","8","9","0","1","2","3">>}

DigitBodies == {SubSeq(p, 1, n) : p \in DigitPatterns, n \in 0..MaxDigits}

CountryPrefixes == {<<>>, <<"0","3","3">>, <<"3","3">>, <<"2","1","3">>, <<"1">>}

Markers == {<<>>, <<"p",":","+">>, <<"P",":">>, <<"+">>}

PlainPhones == {c \o b : c \in CountryPrefixes, b \in DigitBodies}

PhoneValues == {m \o p : m \in Markers, p \in PlainPhones}
               \cup {<<"a","b","c">>, <<"0","7","7","0"," ","5","5","5"," ","9","9","9">>, <<"+","2","1","3"," ","(","0",")"," ","7","7","0","-","5","5","5","-","9","9","9">>}

PhoneRows ==
    {<<Cell("phone_number", v)>> : v \in PhoneValues}
    \cup {<<Cell("nom", <<"A","l","i">>), Cell("Phone Number", v)>> : v \in PlainPhones}
    \cup {<<Cell(k1, a), Cell(k2, b)>> :
            k1 \in {"phone", "phone_number"}, k2 \in {"Phone", "PhoneNumber"},
            a \in {<<>>, <<"a","b","c">>, <<"0","7","7","0","5","5","5","9","9","9">>}, b \in {<<>>, <<"2","1","3","6","6","0","1","1","1","2","2","2">>}}

NameValues == {<<>>, <<" ","A","l","i"," ","B","e","n"," ">>, <<"S","a","r","a">>}

NameRows ==
    {<<Cell(k1, a), Cell(k2, b)>> :
        k1 \in {"full_name", "fullname"}, k2 \in {"Full Name", "FullName"},
        a \in NameValues, b \in NameValues}
    \cup {<<Cell("phone", <<"7","7","0","5","5","5","9","9","9">>), Cell("full name", a)>> : a \in NameValues}

Texts == {<<"D","i","g","i","t","a","l"," ","M","a","r","k","e","t","i","n","g">>, <<"M","a","r","k","e","t","i","n","g">>, <<"R","e","s","s","o","u","r","c","e","s">>, <<"H","u","m","a","i","n","e","s">>,
          <<"G","l","o","b","a","l"," ","G","M","B","A">>, <<"M","a","n","a","g","e","m","e","n","t"," ","O","p","é","r","a","t","i","o","n","n","e","l">>, <<"d","i","g","i","t","a","l">>, <<"M","a","r","k","e","t","i","n","g"," ","F","i","n","a","n","c","e">>}

ProductCells == {<<>>, <<Cell("product cible", <<>>)>>, <<Cell("product cible", <<"p","r","o","d","u","i","t","_","x">>)>>}

CompanyCells == {<<>>, <<Cell("company", <<"a","c","m","e">>)>>}

TextRows ==
    {<<Cell("formation", t1), Cell("ville", t2)>> \o p \o c :
        t1 \in Texts, t2 \in Texts, p \in ProductCells, c \in CompanyCells}

LacForms == {<<"L","i","n","f","o"," ","L","A","C">>, <<"l","i","n","f","o"," ","l","a","c">>, <<"L","A","C"," ","2","0","2","5">>, <<"l","a","c"," ","2","0","2","5">>, <<"L","i","c","e","n","c","e"," ","F","i","n","a","n","c","e">>,
             <<"L","I","C","E","N","C","E"," ","F","I","N","A","N","C","E">>, <<"A","u","t","r","e">>, <<"a","u","t","r","e">>, <<>>}

AwarenessForms == {<<"l","i","c","e","n","c","e","_","c","o","m","m","e","r","c","e","_","&","_","m","a","r","k","e","t","i","n","g">>, <<"L","I","C","E","N","C","E","_","C","O","M","M","E","R","C","E","_","&","_","M","A","R","K","E","T","I","N","G">>,
                   <<"L","i","n","f","o"," ","L","a","c">>, <<"m","a","s","t","e","r"," ","m","m">>, <<"M","a","s","t","e","r"," ","M","M"," ","L","F","C">>,
                   <<"m","a","s","t","e","r","_","e","n","_","t","r","a","n","s","f","o","r","m","a","t","i","o","n","_","d","i","g","i","t","a","l","e","_","e","t","_","e","-","b","u","s","i","n","e","s","s">>,
                   <<"A","u","t","r","e">>, <<"a","u","t","r","e">>, <<>>}

InsagForms == {<<"C","N","E">>, <<"c","n","e">>, <<"M","B","A"," ","G","l","o","b","a","l"," ","C","N","E","-","c","o","p","y">>, <<"E","x","é","c","u","t","i","v","e"," ","M","B","A"," ","F","i","n","a","n","c","e"," ","C","N","E">>,
               <<"M","B","A"," ","G","l","o","b","a","l"," ","C","N","E","-","c","o","p","y"," ","M","B","A"," ","G","l","o","b","a","l"," ","O","c","t","o","b","r","e">>, <<"M","B","A"," ","G","l","o","b","a","l"," ","O","c","t","o","b","r","e"," ","2","4">>,
               <<"E","x","é","c","u","t","i","v","e"," ","M","B","A"," ","F","i","n","a","n","c","e">>, <<"F","o","r","m","a","t","i","o","n"," ","C","N","E">>, <<"M","a","r","k","e","t","i","n","g"," ","D","i","g","i","t","a","l">>}

InsagExtras == {<<>>, <<Cell("source", <<"f","b","_","a","d","s">>)>>,
                <<Cell("company", <<"a","c","m","e">>), Cell("product cible", <<"p","r","o","d","u","i","t","_","x">>)>>}

\* cells that decide what the classifier does with a relabeled row
ClassifierExtras == {<<Cell("ville", <<"M","a","r","k","e","t","i","n","g"," ","D","i","g","i","t","a","l">>)>>,
                     <<Cell("product cible", <<"p","r","o","d","u","i","t","_","x">>)>>,
                     <<Cell("product cible", <<>>), Cell("company", <<"a","c","m","e">>)>>}

LacRows ==
    {<<Cell("id", <<"l",":","1">>), Cell("form_name", f), Cell("platform", <<"f","b">>),
       Cell("lead_status", <<"c","o","m","p","l","e","t","e">>), Cell("phone_number", <<"p",":","+","2","1","3","7","7","0","5","5","5","9","9","9">>)>> :
        f \in LacForms}
    \cup {<<Cell("id", <<"l",":","2">>), Cell("opportunité", f), Cell("full name", <<" ","A","l","i"," ">>)>> :
            f \in {<<"l","f","c">>, <<"L","F","C">>}}
    \cup {<<Cell("id", <<"l",":","3">>), Cell("form_name", <<"L","A","C"," ","2","0","2","5">>)>> \o x : x \in ClassifierExtras}

AwarenessRows ==
    {<<Cell("id", <<"l",":","1">>), Cell("form_name", <<"A","w","a","r","e","n","e","s","s">>), Cell("platform", <<"i","g">>),
       Cell(longCol, f), Cell("Phone", <<"0","7","7","0"," ","5","5","5"," ","9","9","9">>)>> : f \in AwarenessForms}
    \cup {<<Cell("id", <<"l",":","2">>), Cell("opportunité", f), Cell("lead_status", <<"c","o","m","p","l","e","t","e">>)>> :
            f \in {<<"l","f","c">>, <<"L","F","C">>}}
    \cup {<<Cell("id", <<"l",":","3">>), Cell(longCol, <<"L","i","n","f","o"," ","L","a","c">>)>> \o x : x \in ClassifierExtras}
    \cup {<<Cell("id", <<"l",":","3">>), Cell(longCol, <<"l","i","c","e","n","c","e","_","c","o","m","m","e","r","c","e","_","&","_","m","a","r","k","e","t","i","n","g">>)>> \o x :
            x \in ClassifierExtras}

InsagRows ==
    {<<Cell("id", <<"l",":","1">>), Cell("form_name", f), Cell("platform", <<"f","b">>),
       Cell("phone", <<"7","7","0","5","5","5","9","9","9">>)>> \o x : f \in InsagForms, x \in InsagExtras}
    \cup {<<Cell("id", <<"l",":","2">>), Cell("opportunité", <<"M","B","A"," ","G","l","o","b","a","l"," ","A","l","g","e","r">>)>>,
          <<Cell("id", <<"l",":","3">>), Cell("form_name", <<>>)>>}

Pipelines == {"lacInfo", "insagCneIf", "awareness", "insagCneIfV3"}

RowsFor(p) == IF p = "lacInfo" THEN LacRows
              ELSE IF p = "awareness" THEN AwarenessRows
              ELSE InsagRows

DeletionList(p) == IF p = "lacInfo" THEN LacInfoCols
                   ELSE IF p = "awareness" THEN AwarenessCols
                   ELSE InsagCneIfCols

SeqsUpTo(S, n) == UNION {[1..m -> S] : m \in 1..n}

FnRows == PhoneRows \cup NameRows \cup TextRows \cup LacRows \cup AwarenessRows \cup InsagRows

\* no request is being handled
NoRequest == [files |-> <<>>, opts |-> {}, email |-> <<>>, year |-> 0, today |-> <<>>]

NoResponse == [status |-> 0, success |-> FALSE, error |-> <<>>, filesProcessed |-> 0]

\* useState initial values of the upload form
OptionNames == {"lacInfo", "awareness", "insagCneIf", "compareAndClean"}

AllOptionsOff == [o \in OptionNames |-> FALSE]

NoStatus == [type |-> <<>>, message |-> <<>>]

InitialForm ==
    [files |-> 0, selectedOptions |-> AllOptionsOff, email |-> <<>>,
     processing |-> FALSE, status |-> NoStatus]

NoFormInUse == form = InitialForm

NoRequestInFlight ==
    /\ req = NoRequest
    /\ pc = "idle"
    /\ processed = <<>>
    /\ response = NoResponse
    /\ error = <<>>
    /\ mail = "none"
    /\ timer = "off"
    /\ parsed = <<>>
    /\ sent = <<>>

(***************************************************************************)
(* Specification of a pipeline run: the forEach loop over the row stream   *)
(***************************************************************************)
Init ==
    /\ NoRequestInFlight
    /\ NoFormInUse
    /\ pipeline \in Pipelines
    /\ sheet \in SeqsUpTo(RowsFor(pipeline), MaxRows)
    /\ idx = 1
    /\ out = <<>>
    /\ row = <<>>
    /\ prev = <<>>
    /\ last = "none"
    /\ calls = 0

\* variant: a row that was left without a 'product cible' is not pushed
PushClassified(res) ==
    /\ out' = IF res.emit /\ NonEmpty(res.r, "product cible") THEN Append(out, res.r) ELSE out
    /\ idx' = idx + 1
    /\ UNCHANGED <<pipeline, sheet, row, prev, last, calls>>
    /\ UNCHANGED <<reqVars, form>>

\* one call of the forEach callback: the row at idx is processed and pushed or skipped
Push(res) ==
    /\ out' = IF res.emit THEN Append(out, res.r) ELSE out
    /\ idx' = idx + 1
    /\ UNCHANGED <<pipeline, sheet, row, prev, last, calls>>
    /\ UNCHANGED <<reqVars, form>>

LacInfoStep == pipeline = "lacInfo" /\ idx <= Len(sheet) /\ Push(lacInfoRow(sheet[idx]))

InsagCneIfStep == pipeline = "insagCneIf" /\ idx <= Len(sheet) /\ Push(insagCneIfRow(sheet[idx]))

AwarenessStep == pipeline = "awareness" /\ idx <= Len(sheet) /\ Push(awarenessRow(sheet[idx]))

InsagCneIfV3Step == pipeline = "insagCneIfV3" /\ idx <= Len(sheet) /\ Push(insagCneIfRowV3(sheet[idx]))

Next == LacInfoStep \/ InsagCneIfStep \/ AwarenessStep \/ InsagCneIfV3Step

Spec == Init /\ [][Next]_vars

(***************************************************************************)
(* Specification of the row functions: each is called on a row object,     *)
(* up to MaxCalls calls in a row                                           *)
(***************************************************************************)
InitFn ==
    /\ NoRequestInFlight
    /\ NoFormInUse
    /\ row \in FnRows
    /\ prev = row
    /\ last = "none"
    /\ calls = 0
    /\ pipeline = "none"
    /\ sheet = <<>>
    /\ idx = 1
    /\ out = <<>>

\* a function that mutates its argument in place and returns it
Call(name, result) ==
    /\ calls < MaxCalls
    /\ prev' = row
    /\ row' = result
    /\ last' = name
    /\ calls' = calls + 1
    /\ UNCHANGED <<sheet, idx, out>>
    /\ UNCHANGED <<reqVars, form>>

CallNormalisePhone == Call("normalisePhone", normalisePhone(row)) /\ UNCHANGED pipeline

CallNormaliseFullName == Call("normaliseFullName", normaliseFullName(row)) /\ UNCHANGED pipeline

CallAssignProductFromText ==
    Call("assignProductFromText", assignProductFromText(row)) /\ UNCHANGED pipeline

CallNormaliseRow == Call("normaliseRow", normaliseRow(row)) /\ UNCHANGED pipeline

\* processRow(row, cols) with the deletion list of pipeline p: prev is the
\* argument object after the call, row the returned object
CallProcessRow ==
    \E p \in Pipelines :
        /\ calls < MaxCalls
        /\ prev' = processRow(row, DeletionList(p)).arg
        /\ row' = processRow(row, DeletionList(p)).copy
        /\ last' = "processRow"
        /\ pipeline' = p
        /\ calls' = calls + 1
        /\ UNCHANGED <<sheet, idx, out>>
        /\ UNCHANGED <<reqVars, form>>

NextFn == \/ CallNormalisePhone
          \/ CallNormaliseFullName
          \/ CallAssignProductFromText
          \/ CallNormaliseRow
          \/ CallProcessRow

SpecFn == InitFn /\ [][NextFn]_vars

(***************************************************************************)
(* Uploaded files and workbooks                                            *)
(*                                                                         *)
(* An uploaded file is [originalname, readable, sheets]: readable tells    *)
(* whether XLSX.read accepts the buffer, sheets is what sheet_to_json      *)
(* yields for each sheet of the workbook, in SheetNames order.             *)
(***************************************************************************)
NumberTag == "number"

\* typeof v === 'string'
IsString(v) == v = <<>> \/ v[1] # NumberTag

\* the truthiness of a cell value: '' (and undefined) and 0 are falsy
Truthy(v) == v # <<>> /\ v # <<NumberTag, "0">>

XlsxReadMessage == <<"U","n","s","u","p","p","o","r","t","e","d"," ","f","i","l","e">>

readFileAsWorkbookLenient(f) == [ok |-> TRUE, wb |-> f.sheets, error |-> <<>>]

\* readFileAsWorkbook(buffer, fn): the workbook, or the error it throws
readFileAsWorkbook(f) ==
    IF f.readable
    THEN [ok |-> TRUE, wb |-> f.sheets, error |-> <<>>]
    ELSE [ok |-> FALSE, wb |-> <<>>,
          error |-> <<"C","a","n","n","o","t"," ","r","e","a","d"," ">> \o f.originalname \o <<":"," ">> \o XlsxReadMessage]

\* SheetNames.forEach(sheet_to_json(...).forEach(...)): the rows in sheet
\* order, then in row order within a sheet
RECURSIVE flatten(_)
flatten(wb) == IF wb = <<>> THEN <<>> ELSE Head(wb) \o flatten(Tail(wb))

(***************************************************************************)
(* Compare & Clean                                                         *)
(***************************************************************************)
IsDigit(c) == c \in Digits

DigitChars == <<"0","1","2","3","4","5","6","7","8","9">>

\* parseInt(s, 10) of a string of digits
RECURSIVE parseInt(_)
parseInt(s) ==
    IF s = <<>> THEN 0
    ELSE 10 * parseInt(SubSeq(s, 1, Len(s) - 1)) + (IndexIn(DigitChars, s[Len(s)]) - 1)

\* /(\d{2})_(\d{2})/ matches at position i
dateMatchAt(s, i) ==
    /\ i + 4 <= Len(s)
    /\ IsDigit(s[i]) /\ IsDigit(s[i + 1])
    /\ s[i + 2] = "_"
    /\ IsDigit(s[i + 3]) /\ IsDigit(s[i + 4])

\* the optional group (?:_(\d{4})) matches behind a match at position i
yearMatchAt(s, i) ==
    /\ i + 9 <= Len(s)
    /\ s[i + 5] = "_"
    /\ \A j \in 6..9 : IsDigit(s[i + j])

isLeapYear(y) == (y % 4 = 0 /\ y % 100 # 0) \/ y % 400 = 0

daysBeforeMonth == <<0, 31, 59, 90, 120, 151, 181, 212, 243, 273, 304, 334>>

\* the time value of new Date(year, monthIndex, day), counted in days:
\* a year of 0..99 means 1900 + year, and an out-of-range month or day
\* rolls over into the neighbouring year or month
dateValue(year, monthIndex, day) ==
    LET full == IF year >= 0 /\ year <= 99 THEN 1900 + year ELSE year
        months == 12 * full + monthIndex
        y == months \div 12
        m == months % 12
    IN  365 * (y - 1) + ((y - 1) \div 4) - ((y - 1) \div 100) + ((y - 1) \div 400)
        + daysBeforeMonth[m + 1]
        + (IF m >= 2 /\ isLeapYear(y) THEN 1 ELSE 0)
        + (day - 1)

extractDateFromFilenameNeverNull(fn, currentYear) ==
    IF \A i \in 1..Len(fn) : ~dateMatchAt(fn, i)
    THEN [null |-> FALSE, time |-> 0]
    ELSE LET i == CHOOSE i \in 1..Len(fn) :
                      dateMatchAt(fn, i) /\ \A j \in 1..(i - 1) : ~dateMatchAt(fn, j)
         IN  [null |-> FALSE,
              time |-> dateValue(IF yearMatchAt(fn, i) THEN parseInt(SubSeq(fn, i + 6, i + 9))
                                 ELSE currentYear,
                                 parseInt(SubSeq(fn, i + 3, i + 4)) - 1,
                                 parseInt(SubSeq(fn, i, i + 1)))]

\* extractDateFromFilename(fn), with the year new Date().getFullYear() gives:
\* null when the pattern does not occur, else the date of its first occurrence
extractDateFromFilename(fn, currentYear) ==
    IF \A i \in 1..Len(fn) : ~dateMatchAt(fn, i)
    THEN [null |-> TRUE, time |-> 0]
    ELSE LET i == CHOOSE i \in 1..Len(fn) :
                      dateMatchAt(fn, i) /\ \A j \in 1..(i - 1) : ~dateMatchAt(fn, j)
             dd == SubSeq(fn, i, i + 1)
             mm == SubSeq(fn, i + 3, i + 4)
             yyyy == IF yearMatchAt(fn, i) THEN parseInt(SubSeq(fn, i + 6, i + 9))
                     ELSE currentYear
         IN  [null |-> FALSE, time |-> dateValue(yyyy, parseInt(mm) - 1, parseInt(dd))]

\* variant: d1 >= d2
isLaterOrSame(d1, d2) == d1.time >= d2.time

\* d1 > d2 of two Date objects
isLater(d1, d2) == d1.time > d2.time

determineNewerFileFlipped(f1, f2, currentYear) ==
    LET d1 == extractDateFromFilename(f1.originalname, currentYear)
        d2 == extractDateFromFilename(f2.originalname, currentYear)
    IN  IF d1.null \/ d2.null THEN 1 ELSE IF d1.time < d2.time THEN 1 ELSE 2

\* determineNewerFile(f1, f2): 1 when f1 is returned, 2 when f2 is
determineNewerFile(f1, f2, currentYear) ==
    LET d1 == extractDateFromFilename(f1.originalname, currentYear)
        d2 == extractDateFromFilename(f2.originalname, currentYear)
    IN  IF d1.null \/ d2.null THEN 1 ELSE IF isLater(d1, d2) THEN 1 ELSE 2

EmailColumns == <<"email", "Email", "EMAIL", "email_address", "Email Address", "mail", "Mail">>

\* row.email || row.Email || ... || row.Mail: the first truthy value; the
\* empty string stands for the falsy value the chain ends with
RECURSIVE firstTruthy(_, _)
firstTruthy(r, cols) ==
    IF cols = <<>> THEN <<>>
    ELSE IF Truthy(Get(r, Head(cols))) THEN Get(r, Head(cols))
         ELSE firstTruthy(r, Tail(cols))

\* variant: the first value that is not the empty string, falsy or not
extractEmailFirstNonEmpty(r) ==
    IF \E i \in 1..Len(EmailColumns) : Get(r, EmailColumns[i]) # <<>>
    THEN Get(r, EmailColumns[CHOOSE i \in 1..Len(EmailColumns) :
                                /\ Get(r, EmailColumns[i]) # <<>>
                                /\ \A j \in 1..(i - 1) : Get(r, EmailColumns[j]) = <<>>])
    ELSE <<>>

extractEmail(r) == firstTruthy(r, EmailColumns)

\* the olderEmails set
olderEmailsUntrimmed(rows) ==
    {toLowerCase(extractEmail(rows[i])) :
        i \in {j \in 1..Len(rows) : IsString(extractEmail(rows[j]))
                                     /\ includes(extractEmail(rows[j]), <<"@">>)}}

olderEmails(rows) ==
    {trim(toLowerCase(extractEmail(rows[i]))) :
        i \in {j \in 1..Len(rows) : IsString(extractEmail(rows[j]))
                                     /\ includes(extractEmail(rows[j]), <<"@">>)}}

ToLowerCaseTypeError == <<"e","m","a","i","l",".","t","o","L","o","w","e","r","C","a","s","e"," ","i","s"," ","n","o","t"," ","a"," ","f","u","n","c","t","i","o","n">>

keepNormalised(cleaned, r) == Append(cleaned, normaliseRow(r))

\* cleaned.push(row)
keep(cleaned, r) == Append(cleaned, r)

\* the forEach over the newer file's rows, from row i on; a truthy email
\* that is not a string has no toLowerCase and the call throws
RECURSIVE scanNewer(_, _, _, _)
scanNewer(rows, emails, i, acc) ==
    IF i > Len(rows) THEN acc
    ELSE LET email == extractEmail(rows[i])
             counted == [acc EXCEPT !.total = acc.total + 1]
         IN  IF Truthy(email) /\ ~IsString(email)
             THEN [counted EXCEPT !.thrown = TRUE]
             ELSE IF Truthy(email) /\ trim(toLowerCase(email)) \in emails
                  THEN scanNewer(rows, emails, i + 1,
                                 [counted EXCEPT !.dupes = counted.dupes + 1])
                  ELSE scanNewer(rows, emails, i + 1,
                                 [counted EXCEPT !.cleaned = keep(counted.cleaned, rows[i])])

endsWithIgnoreCase(s, suffix) ==
    Len(s) >= Len(suffix)
    /\ toLowerCase(SubSeq(s, Len(s) - Len(suffix) + 1, Len(s))) = suffix

\* name.match(/\.(xlsx?|csv)$/i)?.[0], the empty string when there is no match
extensionOf(name) ==
    IF endsWithIgnoreCase(name, <<".","x","l","s","x">>) THEN SubSeq(name, Len(name) - 4, Len(name))
    ELSE IF endsWithIgnoreCase(name, <<".","x","l","s">>) \/ endsWithIgnoreCase(name, <<".","c","s","v">>)
         THEN SubSeq(name, Len(name) - 3, Len(name))
         ELSE <<>>

cleanFilename(name) ==
    SubSeq(name, 1, Len(name) - Len(extensionOf(name))) \o <<"_","c","l","e","a","n">>
    \o (IF extensionOf(name) = <<>> THEN <<".","x","l","s","x">> ELSE extensionOf(name))

NoResult == [filename |-> <<>>, buffer |-> <<>>, rowCount |-> 0, duplicatesRemoved |-> 0,
             totalOriginalRows |-> 0, olderFileName |-> <<>>, newerFileName |-> <<>>]

cleanResultCountsInput(newer, older, scan) ==
    [filename |-> cleanFilename(newer.originalname),
     buffer |-> scan.cleaned,
     rowCount |-> scan.total,
     duplicatesRemoved |-> scan.dupes,
     totalOriginalRows |-> scan.total,
     olderFileName |-> older.originalname,
     newerFileName |-> newer.originalname]

\* the object compareAndClean returns
cleanResult(newer, older, scan) ==
    [filename |-> cleanFilename(newer.originalname),
     buffer |-> scan.cleaned,
     rowCount |-> Len(scan.cleaned),
     duplicatesRemoved |-> scan.dupes,
     totalOriginalRows |-> scan.total,
     olderFileName |-> older.originalname,
     newerFileName |-> newer.originalname]

ExactlyTwoFilesMessage == <<"C","o","m","p","a","r","e"," ","a","n","d"," ","C","l","e","a","n"," ","r","e","q","u","i","r","e","s"," ","e","x","a","c","t","l","y"," ","2"," ","f","i","l","e","s">>

Thrown(message, read) == [thrown |-> TRUE, error |-> message, read |-> read, result |-> NoResult]

\* compareAndClean(files): the result it returns or the error it throws, and
\* the names of the files it handed to XLSX.read.  The buffer of the result
\* is the row list of its one sheet, 'Cleaned Data'.
compareAndClean(files, currentYear) ==
    IF Len(files) # 2 THEN Thrown(ExactlyTwoFilesMessage, <<>>)
    ELSE
    LET n == determineNewerFile(files[1], files[2], currentYear)
        newer == files[n]
        older == files[3 - n]
        wbNewer == readFileAsWorkbook(newer)
        wbOlder == readFileAsWorkbook(older)
        scan == scanNewer(flatten(wbNewer.wb), olderEmails(flatten(wbOlder.wb)), 1,
                          [cleaned |-> <<>>, dupes |-> 0, total |-> 0, thrown |-> FALSE])
    IN  IF ~wbNewer.ok THEN Thrown(wbNewer.error, <<newer.originalname>>)
        ELSE IF ~wbOlder.ok
             THEN Thrown(wbOlder.error, <<newer.originalname, older.originalname>>)
             ELSE IF scan.thrown
                  THEN Thrown(ToLowerCaseTypeError, <<newer.originalname, older.originalname>>)
                  ELSE [thrown |-> FALSE, error |-> <<>>,
                        read |-> <<newer.originalname, older.originalname>>,
                        result |-> cleanResult(newer, older, scan)]

(***************************************************************************)
(* Inputs of Compare & Clean                                               *)
(***************************************************************************)
MaxSheets == 2      \* sheets of an uploaded workbook

MaxFiles == 3       \* files of a request

FileNames == {<<"l","e","a","d","s","_","1","2","_","0","3","_","2","0","2","5",".","x","l","s","x">>, <<"l","e","a","d","s","_","1","5","_","0","3","_","2","0","2","5",".","x","l","s","x">>, <<"l","e","a","d","s","_","1","3","_","0","3",".","c","s","v">>,
              <<"l","e","a","d","s",".","x","l","s","x">>, <<"x","_","0","1","_","1","3","_","2","0","2","4",".","x","l","s">>, <<"o","l","d","_","1","2","_","0","3","_","2","0","2","5",".","X","L","S","X">>}

CurrentYears == {2025, 2026}

EmailSheets ==
    {<< <<Cell("email", <<"a","@","x",".","c","o","m">>), Cell("phone", <<"5","5","1","2","3","4","5","6","7">>)>>,
        <<Cell("name", <<"A","l","i">>)>> >>,
     << <<Cell("Email", <<" ","A","@","X",".","c","o","m"," ">>)>>,
        <<Cell("email", <<>>), Cell("mail", <<"b","@","y",".","o","r","g">>)>>,
        <<Cell("email", <<"n","a">>)>>,
        <<Cell("email", <<NumberTag, "0">>), Cell("name", <<"Z","e","d">>)>>,
        <<Cell("email", <<NumberTag, "0">>), Cell("Mail", <<"c","@","z",".","d","z">>)>> >>,
     << <<Cell("email", <<NumberTag, "4", "2">>)>>,
        <<Cell("EMAIL", <<"B","@","y",".","o","r","g">>), Cell("phone", <<"+","2","1","3"," ","6","6","1"," ","0","0","0"," ","1","1","1">>)>> >>}

Workbooks == SeqsUpTo(EmailSheets, MaxSheets)

UploadedFiles ==
    [originalname : FileNames, readable : {TRUE}, sheets : Workbooks]
    \cup [originalname : FileNames, readable : {FALSE}, sheets : {<<>>}]

OneRowSheet == <<Append(<<>>, Cell("email", <<"a","@","x",".","c","o","m">>))>>

\* the file lists of every length but two are drawn from two files
FewFiles ==
    {[originalname |-> <<"l","e","a","d","s",".","x","l","s","x">>, readable |-> TRUE,
      sheets |-> <<OneRowSheet>>],
     [originalname |-> <<"l","e","a","d","s","_","1","2","_","0","3","_","2","0","2","5",".","x","l","s","x">>, readable |-> FALSE, sheets |-> <<>>]}

FileLists ==
    [1..2 -> UploadedFiles]
    \cup UNION {[1..n -> FewFiles] : n \in (0..MaxFiles) \ {2}}

(***************************************************************************)
(* Specification of compareAndClean: it is called once on a file list      *)
(***************************************************************************)
\* the clock's year is read only for a name that has a date without a year:
\* the second year is tried for the file lists that have such a name
ClockYears(files) ==
    IF \E i \in 1..Len(files) : \E y \in CurrentYears :
          extractDateFromFilename(files[i].originalname, y)
              # extractDateFromFilename(files[i].originalname, 2025)
    THEN CurrentYears ELSE {2025}

InitCC ==
    /\ req \in UNION {[files : {fl}, opts : {{"compareAndClean"}}, email : {<<>>},
                       year : ClockYears(fl), today : {<<>>}] : fl \in FileLists}
    /\ NoFormInUse
    /\ pc = "call"
    /\ processed = <<>>
    /\ response = NoResponse
    /\ error = <<>>
    /\ mail = "none"
    /\ timer = "off"
    /\ parsed = <<>>
    /\ sent = <<>>
    /\ pipeline = "none"
    /\ sheet = <<>>
    /\ idx = 1
    /\ out = <<>>
    /\ row = <<>>
    /\ prev = <<>>
    /\ last = "none"
    /\ calls = 0

CallCompareAndClean ==
    /\ pc = "call"
    /\ LET res == compareAndClean(req.files, req.year)
       IN  /\ pc' = IF res.thrown THEN "thrown" ELSE "returned"
           /\ processed' = IF res.thrown THEN <<>> ELSE <<res.result>>
           /\ error' = res.error
           /\ parsed' = res.read
    /\ UNCHANGED <<req, response, mail, timer, sent>>
    /\ UNCHANGED <<pipeline, sheet, idx, out, row, prev, last, calls, form>>

NextCC == CallCompareAndClean

SpecCC == InitCC /\ [][NextCC]_vars

(***************************************************************************)
(* The /api/process request handler                                        *)
(***************************************************************************)
\* getTodayDate()
getTodayDate(request) == request.today

RECURSIVE allRows(_)
allRows(files) == IF files = <<>> THEN <<>> ELSE flatten(Head(files).sheets) \o allRows(Tail(files))

RECURSIVE lacInfoRows(_)
lacInfoRows(rows) ==
    IF rows = <<>> THEN <<>>
    ELSE (IF lacInfoRow(Head(rows)).emit THEN <<lacInfoRow(Head(rows)).r>> ELSE <<>>)
         \o lacInfoRows(Tail(rows))

RECURSIVE insagCneIfRows(_)
insagCneIfRows(rows) ==
    IF rows = <<>> THEN <<>>
    ELSE (IF insagCneIfRow(Head(rows)).emit THEN <<insagCneIfRow(Head(rows)).r>> ELSE <<>>)
         \o insagCneIfRows(Tail(rows))

RECURSIVE awarenessRows(_)
awarenessRows(rows) ==
    IF rows = <<>> THEN <<>>
    ELSE (IF awarenessRow(Head(rows)).emit THEN <<awarenessRow(Head(rows)).r>> ELSE <<>>)
         \o awarenessRows(Tail(rows))

\* the object a pipeline returns; the buffer is the row list of its one sheet
pipelineResult(prefix, today, rows) ==
    [filename |-> prefix \o today \o <<".","x","l","s","x">>, buffer |-> rows, rowCount |-> Len(rows)]

processLacInfo(wbs, today) == pipelineResult(<<"a","d","s","_","i","f","a","g","_">>, today, lacInfoRows(allRows(wbs)))

processInsagCneIf(wbs, today) == pipelineResult(<<"a","d","s","_","i","n","s","a","g","_">>, today, insagCneIfRows(allRows(wbs)))

processAwareness(wbs, today) ==
    pipelineResult(<<"a","d","s","_","a","w","a","r","e","n","e","s","s","_","i","f","a","g","_">>, today, awarenessRows(allRows(wbs)))

makeAttachment(result) ==
    [filename |-> result.filename, content |-> result.buffer, encoding |-> "base64"]

RECURSIVE makeAttachments(_)
makeAttachments(results) ==
    IF results = <<>> THEN <<>>
    ELSE <<makeAttachment(Head(results))>> \o makeAttachments(Tail(results))

NoFilesMessage == <<"N","o"," ","f","i","l","e","s"," ","u","p","l","o","a","d","e","d">>

ValidEmailMessage == <<"V","a","l","i","d"," ","e","m","a","i","l"," ","r","e","q","u","i","r","e","d">>

NoOptionMessage == <<"N","o"," ","p","r","o","c","e","s","s","i","n","g"," ","o","p","t","i","o","n"," ","s","e","l","e","c","t","e","d">>

TimeoutMessage == <<"E","m","a","i","l"," ","t","i","m","e","o","u","t"," ","a","f","t","e","r"," ","3","0"," ","s","e","c","o","n","d","s">>

SendMailMessage == <<"C","o","n","n","e","c","t","i","o","n"," ","r","e","f","u","s","e","d">>

\* res.status(status).json({ error })
Reply(status, message) ==
    [status |-> status, success |-> FALSE, error |-> message, filesProcessed |-> 0]

\* res.json({ success: true, filesProcessed, ... })
Success(n) == [status |-> 200, success |-> TRUE, error |-> <<>>, filesProcessed |-> n]

validateFilesOnly(request) ==
    IF Len(request.files) = 0 THEN NoFilesMessage ELSE <<>>

\* the two checks every request passes first: the message of the one that
\* fails, the empty string when both pass
validate(request) ==
    IF Len(request.files) = 0 THEN NoFilesMessage
    ELSE IF ~includes(request.email, <<"@">>) THEN ValidEmailMessage
         ELSE <<>>

fileCountAny(files) == TRUE

\* the handler's own file count check for Compare & Clean
fileCountOk(files) == Len(files) = 2

flagged(opts) ==
    (IF "lacInfo" \in opts THEN <<"lacInfo">> ELSE <<>>)
    \o (IF "insagCneIf" \in opts THEN <<"insagCneIf">> ELSE <<>>)
    \o (IF "awareness" \in opts THEN <<"awareness">> ELSE <<>>)

pipelinesToRunFlagged(opts) == flagged(opts)

\* the pipelines the request runs, in the order of the if statements: none
\* in the Compare & Clean branch
pipelinesToRun(opts) == IF "compareAndClean" \in opts THEN <<>> ELSE flagged(opts)

\* the row the callback of a pipeline makes of a row of the sheet
pipelineRow(name, r) ==
    CASE name = "lacInfo" -> lacInfoRow(r).r
      [] name = "insagCneIf" -> insagCneIfRow(r).r
      [] name = "awareness" -> awarenessRow(r).r

workbooksAfterInPlace(name, wbs) ==
    [i \in 1..Len(wbs) |->
        [originalname |-> wbs[i].originalname,
         readable |-> wbs[i].readable,
         sheets |-> [s \in 1..Len(wbs[i].sheets) |->
                        [k \in 1..Len(wbs[i].sheets[s]) |->
                            pipelineRow(name, wbs[i].sheets[s][k])]]]]

\* the parsed workbooks as a pipeline leaves them: sheet_to_json builds new
\* row objects from the cells on every call and processRow works on a copy,
\* so what the callback writes stays in the pipeline's own rows
workbooksAfter(name, wbs) == wbs

\* the pipeline calls of the handler, one after the other on the same wbs
RECURSIVE runPipelines(_, _, _)
runPipelines(names, wbs, today) ==
    IF names = <<>> THEN <<>>
    ELSE <<CASE Head(names) = "lacInfo" -> processLacInfo(wbs, today)
             [] Head(names) = "insagCneIf" -> processInsagCneIf(wbs, today)
             [] Head(names) = "awareness" -> processAwareness(wbs, today)>>
         \o runPipelines(Tail(names), workbooksAfter(Head(names), wbs), today)

\* files.map(readFileAsWorkbook): the position of the first file XLSX.read
\* rejects, 0 when every file is read
firstUnreadable(files) ==
    IF \A i \in 1..Len(files) : readFileAsWorkbook(files[i]).ok THEN 0
    ELSE CHOOSE i \in 1..Len(files) :
            /\ ~readFileAsWorkbook(files[i]).ok
            /\ \A j \in 1..(i - 1) : readFileAsWorkbook(files[j]).ok

namesOf(files) == [i \in 1..Len(files) |-> files[i].originalname]

\* an early return res.status(400).json(...)
Rejected(message, read) ==
    [send |-> FALSE, reply |-> Reply(400, message), processed |-> <<>>, parsed |-> read,
     error |-> <<>>]

\* an exception caught by the handler's catch block
Failed(message, read) ==
    [send |-> FALSE, reply |-> Reply(500, message), processed |-> <<>>, parsed |-> read,
     error |-> message]

\* the handler's answer or results, given what compareAndClean does on the
\* files (clean), the position of the first unreadable file (bad) and the
\* results of the pipelines to run (outputs)
outcome(request, clean, bad, outputs) ==
    IF validate(request) # <<>> THEN Rejected(validate(request), <<>>)
    ELSE IF "compareAndClean" \in request.opts /\ ~fileCountOk(request.files)
    THEN Rejected(ExactlyTwoFilesMessage, <<>>)
    ELSE IF "compareAndClean" \in request.opts /\ clean.thrown
    THEN Failed(clean.error, clean.read)
    ELSE IF "compareAndClean" \notin request.opts /\ bad # 0
    THEN Failed(readFileAsWorkbook(request.files[bad]).error,
                SubSeq(namesOf(request.files), 1, bad))
    ELSE IF "compareAndClean" \notin request.opts /\ outputs = <<>>
    THEN Rejected(NoOptionMessage, namesOf(request.files))
    ELSE [send |-> TRUE, reply |-> NoResponse,
          processed |-> (IF "compareAndClean" \in request.opts THEN <<clean.result>> ELSE <<>>)
                        \o outputs,
          parsed |-> IF "compareAndClean" \in request.opts THEN clean.read
                     ELSE namesOf(request.files),
          error |-> <<>>]

\* the handler from its start to the call of sendMail: either it answers the
\* request, or it has the results to send
handle(request) ==
    outcome(request,
            compareAndClean(request.files, request.year),
            firstUnreadable(request.files),
            runPipelines(pipelinesToRun(request.opts), request.files, getTodayDate(request)))

replyAlwaysSuccess(event, n) == Success(n)

\* what the handler answers once Promise.race has settled
replyAfterRace(event, n) ==
    IF event = "delivered" THEN Success(n)
    ELSE IF event = "failed" THEN Reply(500, SendMailMessage)
         ELSE Reply(500, TimeoutMessage)

(***************************************************************************)
(* Inputs of a request                                                     *)
(***************************************************************************)
Options == {"compareAndClean", "lacInfo", "insagCneIf", "awareness"}

Emails == {<<>>, <<"u","s","e","r">>, <<"u","@","x",".","i","o">>}

Clocks == {[year |-> 2025, today |-> <<"0","5","_","1","1","_","2","0","2","5">>],
           [year |-> 2026, today |-> <<"0","1","_","0","1","_","2","0","2","6">>]}

RequestFiles ==
    {[originalname |-> <<"l","e","a","d","s","_","1","2","_","0","3","_","2","0","2","5",".","x","l","s","x">>, readable |-> TRUE,
      sheets |-> << <<Append(<<Cell("email", <<"a","@","x",".","c","o","m">>), Cell("form_name", <<"L","i","n","f","o"," ","L","A","C">>)>>,
                              Cell("phone", <<"7","7","0","5","5","5","9","9","9">>))>> >>],
     [originalname |-> <<"l","e","a","d","s","_","1","5","_","0","3","_","2","0","2","5",".","x","l","s","x">>, readable |-> TRUE,
      sheets |-> << <<Append(<<Cell("Email", <<"A","@","x",".","c","o","m"," ">>), Cell("form_name", <<"C","N","E">>)>>,
                              Cell("id", <<"l",":","1">>)),
                      Append(<<Cell("id", <<"l",":","2">>)>>, Cell("form_name", <<"m","a","s","t","e","r"," ","m","m">>))>> >>],
     [originalname |-> <<"l","e","a","d","s","_","1","3","_","0","3","_","2","0","2","5",".","x","l","s","x">>, readable |-> TRUE,
      sheets |-> << <<Append(<<Cell("email", <<NumberTag, "4", "2">>)>>,
                              Cell("form_name", <<"L","A","C"," ","2","0","2","5">>))>> >>],
     [originalname |-> <<"b","r","o","k","e","n",".","x","l","s","x">>, readable |-> FALSE, sheets |-> <<>>]}

Requests ==
    UNION {[files : [1..n -> RequestFiles], opts : SUBSET Options, email : Emails,
            year : {c.year}, today : {c.today}] : n \in 0..MaxFiles, c \in Clocks}

(***************************************************************************)
(* Specification of a request: the handler runs to the call of sendMail,   *)
(* then sendMail and the 30-second timer race, and the handler answers     *)
(* when the first of them settles                                          *)
(***************************************************************************)
InitReq ==
    /\ req \in Requests
    /\ NoFormInUse
    /\ pc = "received"
    /\ processed = <<>>
    /\ response = NoResponse
    /\ error = <<>>
    /\ mail = "none"
    /\ timer = "off"
    /\ parsed = <<>>
    /\ sent = <<>>
    /\ pipeline = "none"
    /\ sheet = <<>>
    /\ idx = 1
    /\ out = <<>>
    /\ row = <<>>
    /\ prev = <<>>
    /\ last = "none"
    /\ calls = 0

\* the handler answers (h.send is false) or calls sendMail and arms the timer
Proceed(h) ==
    /\ parsed' = h.parsed
    /\ error' = h.error
    /\ IF h.send
       THEN /\ processed' = h.processed
            /\ sent' = Append(sent, makeAttachments(h.processed))
            /\ mail' = "inflight"
            /\ timer' = "armed"
            /\ pc' = "awaiting"
            /\ response' = response
       ELSE /\ response' = h.reply
            /\ pc' = "done"
            /\ UNCHANGED <<processed, sent, mail, timer>>

\* the synchronous part of the handler, lines 558-644
ProcessRequest ==
    /\ pc = "received"
    /\ Proceed(handle(req))
    /\ UNCHANGED <<req, pipeline, sheet, idx, out, row, prev, last, calls, form>>

\* a promise of the race settles: the first one resumes the handler, which
\* answers and drops its results; a later one finds the race settled
Settle(event) ==
    IF pc = "awaiting"
    THEN /\ response' = replyAfterRace(event, Len(processed))
         /\ error' = replyAfterRace(event, Len(processed)).error
         /\ processed' = <<>>
         /\ pc' = "done"
    ELSE UNCHANGED <<response, error, processed, pc>>

\* variant: the continuation clears the timer once sendMail has resolved
MailDeliveredClearsTimer ==
    /\ mail = "inflight"
    /\ mail' = "delivered"
    /\ timer' = "off"
    /\ Settle("delivered")
    /\ UNCHANGED <<req, parsed, sent, pipeline, sheet, idx, out, row, prev, last, calls, form>>

\* sendMail resolves
MailDelivered ==
    /\ mail = "inflight"
    /\ mail' = "delivered"
    /\ Settle("delivered")
    /\ UNCHANGED <<req, timer, parsed, sent, pipeline, sheet, idx, out, row, prev, last, calls, form>>

\* sendMail rejects
MailFailed ==
    /\ mail = "inflight"
    /\ mail' = "failed"
    /\ Settle("failed")
    /\ UNCHANGED <<req, timer, parsed, sent, pipeline, sheet, idx, out, row, prev, last, calls, form>>

\* the setTimeout callback runs, 30 seconds after sendMail was called
TimerFires ==
    /\ timer = "armed"
    /\ timer' = "fired"
    /\ Settle("timeout")
    /\ UNCHANGED <<req, mail, parsed, sent, pipeline, sheet, idx, out, row, prev, last, calls, form>>

NextReq == ProcessRequest \/ MailDelivered \/ MailFailed \/ TimerFires

SpecReq == InitReq /\ [][NextReq]_vars

(***************************************************************************)
(* Properties of the row functions (checked under SpecFn)                  *)
(***************************************************************************)
OnlyDigits(s) == SelectSeq(s, LAMBDA c : c \in Digits)

\* the phone candidate a call of normalisePhone on r reads
PhoneKey(r) == FindCandidate(r, PhoneCandidates)

PhoneCalled == last = "normalisePhone" /\ PhoneKey(prev) # ""

\* the digits of the cell read, with the first applicable country code removed
DroppedPrefix(d) ==
    IF startsWith(d, <<"0","3","3">>) THEN 3
    ELSE IF startsWith(d, <<"3","3">>) THEN 2
    ELSE IF startsWith(d, <<"2","1","3">>) THEN 3
    ELSE IF startsWith(d, <<"1">>) THEN 1
    ELSE 0

ReadDigits == OnlyDigits(Get(prev, PhoneKey(prev)))

Stripped == SubSeq(ReadDigits, DroppedPrefix(ReadDigits) + 1, Len(ReadDigits))

Padded == IF Len(Stripped) = 9 /\ Stripped[1] # "0" THEN <<"0">> \o Stripped ELSE Stripped

\* C1: normalisePhone is idempotent: a second application right after a first
\* one changes no field of the row.
C1_PhoneIdempotent ==
    [][(last = "normalisePhone" /\ last' = "normalisePhone") => row' = row]_vars

\* C2: after normaliseRow on a row with a non-empty phone candidate the row has
\* phone_number and none of the six other phone candidates; with a non-empty
\* full-name candidate it has full_name and none of the five other candidates.
C2_OneCanonicalField ==
    (last = "normaliseRow" /\ calls = 1) =>
        /\ (\E k \in Range(PhoneCandidates) : NonEmpty(prev, k)) =>
              /\ Has(row, "phone_number")
              /\ Keys(row) \cap (Range(PhoneCandidates) \ {"phone_number"}) = {}
        /\ (\E k \in Range(NameCandidates) : NonEmpty(prev, k)) =>
              /\ Has(row, "full_name")
              /\ Keys(row) \cap (Range(NameCandidates) \ {"full_name"}) = {}

\* C3: one call of normalisePhone strips at most one country-code prefix, the
\* first that applies of '033', '33', '213', '1': the digits written to
\* phone_number are the digits read minus that one prefix (with the '0' of a
\* 9-digit number prepended), and a digit string with none of the prefixes is
\* written in full.
C3_OnePrefixStripped ==
    (PhoneCalled /\ Stripped # <<>>) =>
        /\ OnlyDigits(Get(row, "phone_number")) = Padded
        /\ Len(ReadDigits) - Len(Stripped) \in {0, 1, 2, 3}
        /\ (DroppedPrefix(ReadDigits) = 0 => Stripped = ReadDigits)

C3_Witness ==
    /\ PhoneCalled
    /\ startsWith(ReadDigits, <<"0","3","3">>)
    /\ startsWith(Stripped, <<"1">>)
    /\ Get(row, "phone_number") = Stripped

C3_WitnessNoPrefix ==
    /\ PhoneCalled
    /\ ReadDigits = <<"0","7","7","0","5","5","5","9","9","9">>
    /\ Get(row, "phone_number") = <<"0","7","7","0"," ","5","5","5"," ","9","9","9">>

\* C4: 9 digits not starting with '0' get a '0' prepended; exactly 10 digits
\* are written as 'DDDD DDD DDD'; a non-empty string of another length is
\* written unformatted; an empty string leaves phone_number untouched.
C4_PadAndFormat ==
    PhoneCalled =>
        /\ Len(Padded) = 10 =>
              Get(row, "phone_number") =
                  SubSeq(Padded, 1, 4) \o <<" ">> \o SubSeq(Padded, 5, 7) \o <<" ">>
                      \o SubSeq(Padded, 8, 10)
        /\ (Len(Padded) # 10 /\ Len(Padded) > 0) => Get(row, "phone_number") = Padded
        /\ Len(Padded) = 0 =>
              /\ Has(row, "phone_number") = Has(prev, "phone_number")
              /\ Get(row, "phone_number") = Get(prev, "phone_number")

C4_Witness ==
    /\ PhoneCalled
    /\ Stripped = <<"7","7","0","5","5","5","9","9","9">>
    /\ Get(row, "phone_number") = <<"0","7","7","0"," ","5","5","5"," ","9","9","9">>

\* C5: assignProductFromText never overwrites an existing value: a row with a
\* non-empty 'product cible' is left as it is, and when 'product cible' is
\* assigned, a non-empty 'company' is kept.
C5_NoOverwrite ==
    last = "assignProductFromText" =>
        /\ NonEmpty(prev, "product cible") => row = prev
        /\ \A k \in Keys(prev) : NonEmpty(prev, k) => Get(row, k) = Get(prev, k)
        /\ (~NonEmpty(prev, "company") /\ NonEmpty(row, "company")) =>
              Get(row, "product cible") # Get(prev, "product cible")

C5_Witness ==
    /\ last = "assignProductFromText"
    /\ Get(prev, "product cible") = <<"p","r","o","d","u","i","t","_","x">>
    /\ includes(allText(prev), <<"m","a","r","k","e","t","i","n","g">>)
    /\ row = prev

C5_WitnessCompanyKept ==
    /\ last = "assignProductFromText"
    /\ ~NonEmpty(prev, "product cible")
    /\ NonEmpty(row, "product cible")
    /\ Get(row, "company") = <<"a","c","m","e">>

\* C6: when keywords of several rule groups occur in the text of the row,
\* 'product cible' is the product of the group that comes first in the list.
C6_FirstGroupWins ==
    (last = "assignProductFromText" /\ ~NonEmpty(prev, "product cible")) =>
        \A i \in 1..Len(patterns) :
            (/\ groupMatches(allText(prev), i)
             /\ \A j \in 1..(i - 1) : ~groupMatches(allText(prev), j))
            => Get(row, "product cible") = patterns[i].product

C6_Witness ==
    /\ last = "assignProductFromText"
    /\ ~NonEmpty(prev, "product cible")
    /\ groupMatches(allText(prev), 2)
    /\ groupMatches(allText(prev), 4)
    /\ ~groupMatches(allText(prev), 1)
    /\ Get(row, "product cible") = ProductMrk

C6_WitnessDigitalMarketing ==
    /\ last = "assignProductFromText"
    /\ ~NonEmpty(prev, "product cible")
    /\ includes(allText(prev), <<"d","i","g","i","t","a","l"," ","m","a","r","k","e","t","i","n","g">>)
    /\ includes(allText(prev), <<"m","a","r","k","e","t","i","n","g">>)
    /\ Get(row, "product cible") = ProductDmk

\* C9: processRow(row, cols) returns a new row with exactly the fields of row
\* whose names are not in cols, values unchanged, and leaves its argument
\* unmodified; cols is the fixed deletion list of the pipeline that calls it.
C9_ProcessRowFrame ==
    [][(last' = "processRow" /\ calls' = calls + 1) =>
          LET cols == Range(DeletionList(pipeline'))
          IN  /\ prev' = row
              /\ Keys(row') = Keys(row) \ cols
              /\ \A k \in Keys(row') : Get(row', k) = Get(row, k)
              /\ \A i, j \in 1..Len(row') :
                    i < j => KeyIndex(row, row'[i].k) < KeyIndex(row, row'[j].k)]_vars

C9_Witness ==
    /\ last = "processRow"
    /\ pipeline = "awareness"
    /\ Has(prev, "form_name")
    /\ Has(prev, "platform")
    /\ ~Has(row, "form_name")
    /\ Has(row, "platform")

(***************************************************************************)
(* Properties of the pipelines (checked under Spec)                        *)
(***************************************************************************)
ServerPipelines == {"lacInfo", "insagCneIf", "awareness"}

\* the cell a pipeline takes the opportunity from
OppSource(p, rowIn) ==
    LET col == IF p = "awareness" THEN longCol ELSE "form_name"
    IN  IF Has(rowIn, col) THEN Get(rowIn, col) ELSE Get(rowIn, "opportunité")

Canonical(p) ==
    IF p = "lacInfo" THEN {LicenceInformatique, LicenceCommerce, LicenceFinance}
    ELSE IF p = "awareness"
    THEN {LicenceInformatiqueAwareness, LicenceCommerce, LicenceFinance, MasterMarketing,
          MasterDigital}
    ELSE {MbaGlobalCne, MbaGlobalAlger}

OutOpp(i) == Get(out[i], "opportunité")

SameButCase(a, b) == toLowerCase(a) = toLowerCase(b)

C7_WitnessUnmatched ==
    /\ pipeline = "awareness"
    /\ Len(out) = 2
    /\ OppSource(pipeline, sheet[1]) = <<"A","u","t","r","e">>
    /\ OutOpp(1) = <<"A","u","t","r","e">>
    /\ OutOpp(2) = <<"a","u","t","r","e">>

\* ordered (keywords, result) rules, the first rule with a keyword in v decides
RECURSIVE FirstMatch(_, _, _)
FirstMatch(v, rules, default) ==
    IF rules = <<>> THEN default
    ELSE IF \E kw \in Head(rules).keywords : includes(v, kw) THEN Head(rules).result
    ELSE FirstMatch(v, Tail(rules), default)

LacRules == <<
    [keywords |-> {<<"l","i","n","f","o">>, <<"l","i","c","e","n","c","e"," ","i","n","f","o">>, <<"l","i","c","e","n","c","e"," ","i","n","f","o","r","m","a","t","i","q","u","e">>, <<"l","i","c","e","n","c","e"," ","i","n","f","o"," ","2","0","2","5">>},
     result |-> LicenceInformatique],
    [keywords |-> {<<"l","a","c">>, <<"l","i","c","e","n","c","e"," ","c","o","m","m","e","r","c","e">>, <<"l","i","c","e","n","c","e"," ","s","c","i","e","n","c","e"," ","c","o","m","m","e","r","c","i","a","l","e","s">>,
                   <<"l","i","c","e","n","c","e"," ","s","c","i","e","n","c","e","s"," ","c","o","m","m","e","r","c","i","a","l","e","s"," ","a","n","n","é","e"," ","2","5","-","2","6">>},
     result |-> LicenceCommerce],
    [keywords |-> {<<"l","f","c">>, <<"l","i","c","e","n","c","e"," ","f","i","n","a","n","c","e">>}, result |-> LicenceFinance] >>

AwarenessRules == <<
    [keywords |-> {<<"l","i","n","f","o">>, <<"l","i","c","e","n","c","e"," ","i","n","f","o">>, <<"l","i","c","e","n","c","e","_","i","n","f","o","r","m","a","t","i","q","u","e">>},
     result |-> LicenceInformatiqueAwareness],
    [keywords |-> {<<"l","a","c">>, <<"l","i","c","e","n","c","e"," ","c","o","m","m","e","r","c","e">>, <<"l","i","c","e","n","c","e","_","c","o","m","m","e","r","c","e","_","&","_","m","a","r","k","e","t","i","n","g">>},
     result |-> LicenceCommerce],
    [keywords |-> {<<"l","f","c">>, <<"l","i","c","e","n","c","e","_","f","i","n","a","n","c","e","_","e","t","_","c","o","m","p","t","a","b","i","l","i","t","é">>}, result |-> LicenceFinance],
    [keywords |-> {<<"m","a","s","t","e","r"," ","m","m">>, <<"m","a","s","t","e","r","_","m","a","r","k","e","t","i","n","g","_","&","_","m","a","n","a","g","e","m","e","n","t">>}, result |-> MasterMarketing],
    [keywords |-> {<<"m","a","s","t","e","r","_","e","n","_","t","r","a","n","s","f","o","r","m","a","t","i","o","n","_","d","i","g","i","t","a","l","e","_","e","t","_","e","-","b","u","s","i","n","e","s","s">>},
     result |-> MasterDigital] >>

\* the Insag CNE IF rules in the order 'MBA Global CNE-copy', exact 'CNE',
\* 'MBA Global Octobre', the first that matches deciding
InsagFirstMatch(opp) ==
    IF includes(opp, <<"M","B","A"," ","G","l","o","b","a","l"," ","C","N","E","-","c","o","p","y">>) THEN MbaGlobalCne
    ELSE IF opp = <<"C","N","E">> THEN MbaGlobalCne
    ELSE IF includes(opp, <<"M","B","A"," ","G","l","o","b","a","l"," ","O","c","t","o","b","r","e">>) THEN MbaGlobalAlger
    ELSE opp

ExpectedOpp(p, src) ==
    IF p = "lacInfo" THEN FirstMatch(toLowerCase(src), LacRules, src)
    ELSE IF p = "awareness" THEN FirstMatch(toLowerCase(src), AwarenessRules, src)
    ELSE InsagFirstMatch(src)

\* C8: in each pipeline the relabel rules are evaluated in their listed order
\* and the first rule that matches determines the opportunité; a later rule
\* never overrides an earlier rule that matched.
C8_FirstRuleWins ==
    pipeline \in ServerPipelines =>
        \A i \in 1..Len(out) : OutOpp(i) = ExpectedOpp(pipeline, OppSource(pipeline, sheet[i]))

\* the row at idx is the case of C10: unrecognized after relabeling, without
\* source, 'Equipe commercial' and 'product cible', form name containing 'cne'
Unrecognized(rowIn) ==
    LET src == OppSource("insagCneIf", rowIn)
        opp == IF src = <<>> THEN src ELSE relabelInsagCneIf(src)
    IN  /\ opp # MbaGlobalCne
        /\ ~includes(opp, <<"M","B","A"," ","G","l","o","b","a","l"," ","O","c","t","o","b","r","e"," ","2","4">>)
        /\ ~includes(opp, MbaGlobalAlger)
        /\ ~includes(opp, <<"E","x","é","c","u","t","i","v","e"," ","M","B","A"," ","F","i","n","a","n","c","e">>)

LacksDerivedFields(rowIn) ==
    /\ ~NonEmpty(rowIn, "source")
    /\ ~NonEmpty(rowIn, "Equipe commercial")
    /\ ~NonEmpty(rowIn, "product cible")

SkipCase(rowIn) ==
    /\ Unrecognized(rowIn)
    /\ LacksDerivedFields(rowIn)
    /\ includes(toLowerCase(Get(rowIn, "form_name")), <<"c","n","e">>)

InsagStep == idx <= Len(sheet) /\ idx' = idx + 1

\* C10 as stated: in the Insag CNE IF pipeline (either revision) a row that is
\* unrecognized, lacks the derived fields and has 'cne' in its form name is
\* not emitted.
C10_SkippedInInsag ==
    [][(pipeline \in {"insagCneIf", "insagCneIfV3"} /\ InsagStep /\ SkipCase(sheet[idx]))
          => out' = out]_vars

\* C10 amended: the row is skipped in the v3 revision of the pipeline, where
\* the decision is taken after relabeling and no default source/team is
\* injected into a row of an unrecognized opportunity; the pipeline of
\* backend/server.js emits every row.
C10_SkippedInV3Only ==
    [][InsagStep =>
          /\ (pipeline = "insagCneIfV3" /\ SkipCase(sheet[idx])) => out' = out
          /\ (pipeline = "insagCneIfV3" /\ Unrecognized(sheet[idx]) /\ out' # out) =>
                /\ Get(out'[Len(out')], "source") = Get(sheet[idx], "source")
                /\ Get(out'[Len(out')], "Equipe commercial") = Get(sheet[idx], "Equipe commercial")
          /\ pipeline = "insagCneIf" => Len(out') = Len(out) + 1]_vars

C10_Witness ==
    /\ pipeline = "insagCneIfV3"
    /\ idx = 2
    /\ Get(sheet[1], "form_name") = <<"F","o","r","m","a","t","i","o","n"," ","C","N","E">>
    /\ SkipCase(sheet[1])
    /\ out = <<>>

(***************************************************************************)
(* Compare & Clean (SpecCC)                                                *)
(***************************************************************************)
Returned == pc = "returned"

Result == processed[1]

\* the email of a row as the comparison reads it: the first non-empty value
\* among the seven email columns
EmailOf(r) ==
    IF \E i \in 1..Len(EmailColumns) : Truthy(Get(r, EmailColumns[i]))
    THEN Get(r, EmailColumns[CHOOSE i \in 1..Len(EmailColumns) :
                                /\ Truthy(Get(r, EmailColumns[i]))
                                /\ \A j \in 1..(i - 1) : ~Truthy(Get(r, EmailColumns[j]))])
    ELSE <<>>

Canonical2(e) == trim(toLowerCase(e))

RowsOf(f) == flatten(f.sheets)

\* the lower-cased trimmed '@'-containing emails of all sheets of file f
EmailSetOf(f) ==
    LET rows == RowsOf(f)
        emailAt == [i \in 1..Len(rows) |-> EmailOf(rows[i])]
    IN  {Canonical2(emailAt[j]) :
            j \in {i \in 1..Len(rows) : IsString(emailAt[i]) /\ "@" \in Range(emailAt[i])}}

\* the rows of newerFile whose email is not one of olderFile's
ExpectedKept(newerFile, olderFile) ==
    LET emails == EmailSetOf(olderFile)
        Kept(r) == LET e == EmailOf(r) IN ~(e # <<>> /\ Canonical2(e) \in emails)
    IN  SelectSeq(RowsOf(newerFile), Kept)

NewerIdx == determineNewerFile(req.files[1], req.files[2], req.year)

NewerFile == req.files[NewerIdx]

OlderFile == req.files[3 - NewerIdx]

C12_CountsAddUp ==
    Returned =>
        LET n == NewerIdx IN
        /\ Result.rowCount + Result.duplicatesRemoved = Result.totalOriginalRows
        /\ Result.totalOriginalRows = Len(RowsOf(req.files[n]))
        /\ Result.rowCount = Len(Result.buffer)
        /\ Result.newerFileName = req.files[n].originalname
        /\ Result.olderFileName = req.files[3 - n].originalname

C12_Witness ==
    /\ Returned
    /\ Result.duplicatesRemoved > 0
    /\ Result.rowCount > 0
    /\ Result.newerFileName # Result.olderFileName

\* the pattern dd_dd occurs in the name
HasDate(name) == \E i \in 1..Len(name) : dateMatchAt(name, i)

File1 == req.files[1]

File2 == req.files[2]

Called == pc \in {"returned", "thrown"}

NoNumberEmail(f) ==
    LET rows == RowsOf(f) IN \A i \in 1..Len(rows) : IsString(EmailOf(rows[i]))

\* C14: when the name of either file has no date, the first uploaded file
\* is the newer one and the second the older one, and the call does not fail
\* for that reason
C14_UndatedFirstIsNewer ==
    (Called /\ Len(req.files) = 2 /\ (~HasDate(File1.originalname) \/ ~HasDate(File2.originalname)))
    => /\ SubSeq(parsed, 1, 1) = <<File1.originalname>>
       /\ (File1.readable /\ File2.readable /\ NoNumberEmail(File1)) => Returned
       /\ Returned =>
            /\ Result.newerFileName = File1.originalname
            /\ Result.olderFileName = File2.originalname
            /\ Result.buffer = ExpectedKept(File1, File2)

\* the first file has no date, the second has one, and rows were dropped
C14_Witness ==
    /\ Returned
    /\ ~HasDate(File1.originalname)
    /\ HasDate(File2.originalname)
    /\ Result.newerFileName = File1.originalname
    /\ Result.duplicatesRemoved > 0

DateOf(f) == extractDateFromFilename(f.originalname, req.year)

BothDated == Len(req.files) = 2 /\ ~DateOf(File1).null /\ ~DateOf(File2).null

LaterIdx == IF DateOf(File1).time > DateOf(File2).time THEN 1 ELSE 2

\* C15: when both names yield a date and the dates differ, the file with the
\* later date is the newer one whichever was uploaded first, and in every
\* case newer and older are the two distinct input files
C15_LaterDateIsNewer ==
    /\ (Returned /\ BothDated /\ DateOf(File1).time # DateOf(File2).time)
       => LET later == LaterIdx IN
          /\ Result.newerFileName = req.files[later].originalname
          /\ Result.olderFileName = req.files[3 - later].originalname
          /\ Result.buffer = ExpectedKept(req.files[later], req.files[3 - later])
          /\ compareAndClean(<<File2, File1>>, req.year).result = Result
    /\ Returned
       => \E n \in {1, 2} :
              /\ Result.newerFileName = req.files[n].originalname
              /\ Result.olderFileName = req.files[3 - n].originalname
              /\ Result.buffer = ExpectedKept(req.files[n], req.files[3 - n])

\* the first uploaded file carries the later date
C15_Witness ==
    /\ Returned
    /\ BothDated
    /\ DateOf(File1).time > DateOf(File2).time
    /\ Result.newerFileName = File1.originalname
    /\ Result.newerFileName # Result.olderFileName

\* the second uploaded file carries the later date
C15_WitnessSecond ==
    /\ Returned
    /\ BothDated
    /\ DateOf(File1).time < DateOf(File2).time
    /\ Result.newerFileName = File2.originalname
    /\ Result.duplicatesRemoved > 0

RECURSIVE IsSubsequence(_, _)
IsSubsequence(a, b) ==
    IF a = <<>> THEN TRUE
    ELSE IF b = <<>> THEN FALSE
         ELSE IF Head(a) = Head(b) THEN IsSubsequence(Tail(a), Tail(b))
              ELSE IsSubsequence(a, Tail(b))

\* C16: the rows compareAndClean returns are a subsequence of the newer
\* file's row stream (sheet order, then row order), each row with all of its
\* fields and values as read, and the call leaves both input files as they were
C16_KeptRowsUnchanged ==
    [][pc' = "returned"
       => /\ IsSubsequence(processed'[1].buffer, RowsOf(NewerFile))
          /\ req' = req]_vars

\* a row that normaliseRow would rewrite is kept, and another row is dropped
C16_Witness ==
    /\ Returned
    /\ Result.duplicatesRemoved > 0
    /\ \E i \in 1..Len(Result.buffer) :
           /\ Result.buffer[i] \in Range(RowsOf(NewerFile))
           /\ normaliseRow(Result.buffer[i]) # Result.buffer[i]

(***************************************************************************)
(* The request handler (SpecReq)                                           *)
(***************************************************************************)
Answered == pc = "done"

UsesClean == "compareAndClean" \in req.opts

HasFiles == Len(req.files) > 0

HasValidEmail == "@" \in Range(req.email)

NothingDelivered == sent = <<>> /\ mail = "none" /\ processed = <<>>

\* the call threw the file count error before reading a file
ThrowsExactlyTwo(call) ==
    call.thrown /\ call.error = ExactlyTwoFilesMessage /\ call.read = <<>>

\* C13: Compare & Clean on a file count other than two is rejected with
\* 'Compare and Clean requires exactly 2 files' and nothing is parsed,
\* produced or mailed: compareAndClean throws it for every such list, and
\* the handler answers a request that has files and a valid email with it
\* (status 400) before any file is read
C13_ExactlyTwoFiles ==
    (UsesClean /\ Len(req.files) # 2)
    => /\ ThrowsExactlyTwo(compareAndClean(req.files, req.year))
       /\ parsed = <<>>
       /\ NothingDelivered
       /\ Answered => /\ response.status = 400
                      /\ ~response.success
                      /\ (HasFiles /\ HasValidEmail)
                         => response.error = ExactlyTwoFilesMessage

\* three files, one of them unreadable, every option set
C13_Witness ==
    /\ Answered
    /\ req.opts = Options
    /\ Len(req.files) = 3
    /\ \E i \in 1..3 : ~req.files[i].readable
    /\ response = Reply(400, ExactlyTwoFilesMessage)

C13_WitnessOneFile ==
    /\ Answered
    /\ UsesClean
    /\ Len(req.files) = 1
    /\ response = Reply(400, ExactlyTwoFilesMessage)

IsPipelineOutput(attachment) == startsWith(attachment.filename, <<"a","d","s","_">>)

PipelineFlags == req.opts \cap {"lacInfo", "insagCneIf", "awareness"}

\* the attachment carries the result of the compareAndClean call
IsCleanedFile(attachment, call) ==
    /\ ~call.thrown
    /\ attachment.filename = call.result.filename
    /\ attachment.content = call.result.buffer

\* C17: when compareAndClean is selected no pipeline runs, whatever other
\* flags are set, and exactly one result, the cleaned file, is attached;
\* pipeline outputs are attached only when compareAndClean is not selected
C17_CleanExcludesPipelines ==
    /\ (UsesClean /\ pc # "received" /\ ~Answered)
       => /\ Len(processed) = 1
          /\ Len(sent) = 1
    /\ \A i \in 1..Len(sent) :
          /\ UsesClean
             => /\ Len(sent[i]) = 1
                /\ ~IsPipelineOutput(sent[i][1])
                /\ IsCleanedFile(sent[i][1], compareAndClean(req.files, req.year))
          /\ ~UsesClean
             => /\ Len(sent[i]) = Cardinality(PipelineFlags)
                /\ \A j \in 1..Len(sent[i]) : IsPipelineOutput(sent[i][j])

\* every flag is set and the one attachment is the cleaned file
C17_Witness ==
    /\ pc = "awaiting"
    /\ req.opts = Options
    /\ Len(processed) = 1
    /\ Len(sent) = 1
    /\ Len(sent[1]) = 1
    /\ sent[1][1].filename = cleanFilename(processed[1].newerFileName)

C17_WitnessPipelines ==
    /\ pc = "awaiting"
    /\ ~UsesClean
    /\ Len(sent) = 1
    /\ Len(sent[1]) = 3

AllReadable == \A i \in 1..Len(req.files) : req.files[i].readable

ValidationMessages ==
    {NoFilesMessage, ValidEmailMessage, ExactlyTwoFilesMessage, NoOptionMessage}

C18_WitnessNoOption ==
    /\ Answered
    /\ req.opts = {}
    /\ parsed # <<>>
    /\ response = Reply(400, NoOptionMessage)

Unreadable == {i \in 1..Len(req.files) : ~req.files[i].readable}

\* the file handed to XLSX.read last was rejected
ParseFailed ==
    /\ parsed # <<>>
    /\ \E i \in Unreadable : req.files[i].originalname = parsed[Len(parsed)]

\* the request gets as far as reading its files
ReachesParsing == HasFiles /\ HasValidEmail /\ (UsesClean => Len(req.files) = 2)

\* C19: when a file cannot be parsed the request is aborted with an error
\* that names that file; no pipeline output exists and no mail is sent, also
\* not for the files that were read
C19_UnparseableFileAborts ==
    /\ (pc # "received" /\ ParseFailed)
       => /\ Answered
          /\ response.status = 500
          /\ ~response.success
          /\ includes(response.error, parsed[Len(parsed)])
          /\ NothingDelivered
    /\ (pc # "received" /\ ReachesParsing /\ Unreadable # {}) => ParseFailed

\* the second file is unreadable, the first was read, a pipeline is selected
C19_Witness ==
    /\ Answered
    /\ Len(req.files) = 2
    /\ req.files[1].readable
    /\ ~req.files[2].readable
    /\ "lacInfo" \in req.opts
    /\ ~UsesClean
    /\ parsed = namesOf(req.files)
    /\ response.status = 500

C19_WitnessClean ==
    /\ Answered
    /\ UsesClean
    /\ ParseFailed
    /\ Len(parsed) = 2

\* C20: success is answered only once sendMail has resolved; when sendMail
\* rejects, or the 30-second timer fires first, the request is answered
\* with an error although the results were computed, the results are
\* dropped and sendMail is not called again
C20_SuccessOnlyAfterDelivery ==
    [][/\ response'.success => (mail' = "delivered" /\ response'.status = 200)
       /\ (pc = "awaiting" /\ ((mail = "inflight" /\ mail' = "failed")
                                \/ (timer = "armed" /\ timer' = "fired")))
          => /\ pc' = "done"
             /\ response'.status = 500
             /\ ~response'.success
             /\ response'.error # <<>>
             /\ processed # <<>>
             /\ processed' = <<>>
       /\ pc # "received" => sent' = sent
       /\ pc = "done" => response' = response
       /\ Len(sent') <= 1]_vars

\* the timer fired while sendMail was still in flight
C20_Witness ==
    /\ Answered
    /\ mail = "inflight"
    /\ timer = "fired"
    /\ response = Reply(500, TimeoutMessage)

C20_WitnessFailed ==
    /\ Answered
    /\ mail = "failed"
    /\ response = Reply(500, SendMailMessage)

C20_WitnessSuccess ==
    /\ Answered
    /\ mail = "delivered"
    /\ response.success
    /\ response.filesProcessed = 3

\* each selected pipeline run on its own on the files of the request, in
\* the order LAC Info, Insag CNE IF, Awareness
OutputsOnTheirOwn ==
    (IF "lacInfo" \in req.opts THEN <<processLacInfo(req.files, req.today)>> ELSE <<>>)
    \o (IF "insagCneIf" \in req.opts THEN <<processInsagCneIf(req.files, req.today)>> ELSE <<>>)
    \o (IF "awareness" \in req.opts THEN <<processAwareness(req.files, req.today)>> ELSE <<>>)

InsagEmits == pipeline \in {"insagCneIf", "insagCneIfV3"} /\ InsagStep /\ out' # out

\* the opportunité of the row once renamed and relabeled
InsagOpp(rowIn) ==
    LET src == OppSource("insagCneIf", rowIn)
    IN  IF src = <<>> THEN src ELSE relabelInsagCneIf(src)

AlgerCase(rowIn) ==
    /\ InsagOpp(rowIn) # MbaGlobalCne
    /\ \/ includes(InsagOpp(rowIn), <<"M","B","A"," ","G","l","o","b","a","l"," ","O","c","t","o","b","r","e"," ","2","4">>)
       \/ includes(InsagOpp(rowIn), MbaGlobalAlger)

\* the value of column col is the input's when that is non-empty, else the default
KeptOrDefault(rowOut, rowIn, col, default) ==
    Get(rowOut, col) = IF NonEmpty(rowIn, col) THEN Get(rowIn, col) ELSE default

\* C22 as stated: every row emitted by Insag CNE IF (either revision) has the
\* fixed bu and non-empty 'source' and 'Equipe commercial': the default when
\* the row has no value, the row's own value when it has one
C22_InsagDefaults ==
    [][InsagEmits =>
          /\ Get(out'[Len(out')], "bu") = BusinessUnit
          /\ KeptOrDefault(out'[Len(out')], sheet[idx], "source", DefaultSource)
          /\ KeptOrDefault(out'[Len(out')], sheet[idx], "Equipe commercial", DefaultTeam)]_vars

\* C22 amended: every emitted row has the fixed bu.  A row of the category
\* 'MBA Global Alger' / 'MBA Global Octobre 24' always leaves with the default
\* source and team, whatever it came with.  Any other row emitted by
\* backend/server.js, and any other row of a recognized category emitted by
\* the v3 revision, keeps a non-empty value and gets the default otherwise.
\* A row of an unrecognized opportunity emitted by the v3 revision leaves
\* with source and team as they came, empty included.
C22_InsagDefaultsByCategory ==
    [][InsagEmits =>
          /\ Get(out'[Len(out')], "bu") = BusinessUnit
          /\ AlgerCase(sheet[idx])
             => /\ Get(out'[Len(out')], "source") = DefaultSource
                /\ Get(out'[Len(out')], "Equipe commercial") = DefaultTeam
          /\ (~AlgerCase(sheet[idx]) /\ (pipeline = "insagCneIf" \/ ~Unrecognized(sheet[idx])))
             => /\ KeptOrDefault(out'[Len(out')], sheet[idx], "source", DefaultSource)
                /\ KeptOrDefault(out'[Len(out')], sheet[idx], "Equipe commercial", DefaultTeam)
          /\ (pipeline = "insagCneIfV3" /\ Unrecognized(sheet[idx]))
             => /\ Get(out'[Len(out')], "source") = Get(sheet[idx], "source")
                /\ Get(out'[Len(out')], "Equipe commercial") = Get(sheet[idx], "Equipe commercial")]_vars

\* backend/server.js replaced the source of an 'MBA Global Alger' row
C22_Witness ==
    /\ pipeline = "insagCneIf"
    /\ idx = 2
    /\ Len(out) = 1
    /\ AlgerCase(sheet[1])
    /\ NonEmpty(sheet[1], "source")
    /\ Get(sheet[1], "source") # DefaultSource
    /\ Get(out[1], "source") = DefaultSource

\* the v3 revision emitted an unrecognized row without source and team
C22_WitnessV3 ==
    /\ pipeline = "insagCneIfV3"
    /\ idx = 2
    /\ Len(out) = 1
    /\ Unrecognized(sheet[1])
    /\ ~NonEmpty(out[1], "source")
    /\ ~NonEmpty(out[1], "Equipe commercial")

\* a row of another category kept its source and got the default team
C22_WitnessKept ==
    /\ pipeline = "insagCneIf"
    /\ idx = 2
    /\ Len(out) = 1
    /\ ~AlgerCase(sheet[1])
    /\ NonEmpty(sheet[1], "source")
    /\ Get(out[1], "source") = Get(sheet[1], "source")
    /\ Get(out[1], "Equipe commercial") = DefaultTeam

CneCase(rowIn) == InsagOpp(rowIn) = MbaGlobalCne

FinanceCase(rowIn) ==
    /\ ~CneCase(rowIn)
    /\ ~AlgerCase(rowIn)
    /\ includes(InsagOpp(rowIn), <<"E","x","é","c","u","t","i","v","e"," ","M","B","A"," ","F","i","n","a","n","c","e">>)

\* the company and product of the category of rowIn
CategoryCompany(rowIn) == IF CneCase(rowIn) THEN SecondaryCompany ELSE MainCompany

CategoryProduct(rowIn) == IF FinanceCase(rowIn) THEN ProductSfe ELSE ProductMos

FormNameHasCne(rowIn) == includes(toLowerCase(Get(rowIn, "form_name")), <<"c","n","e">>)

\* C23 as stated: in Insag CNE IF (either revision) a row of a recognized
\* category is emitted with the company and 'product cible' of the category
\* ('MBA Global CNE': secondary company, mba_mos; 'MBA Global Alger': main
\* company, mba_mos; 'Exécutive MBA Finance': main company, emba_sfe),
\* whatever the input held in those columns
C23_CategoryFields ==
    [][(InsagEmits /\ ~Unrecognized(sheet[idx]))
          => /\ Get(out'[Len(out')], "company") = CategoryCompany(sheet[idx])
             /\ Get(out'[Len(out')], "product cible") = CategoryProduct(sheet[idx])]_vars

\* C23 amended: the product is the category's in both revisions, and the
\* company is the category's in backend/server.js; in the v3 revision the
\* company is the secondary company whenever the form name contains 'cne' in
\* any letter case, and the category's otherwise
C23_CategoryFieldsByRevision ==
    [][(InsagEmits /\ ~Unrecognized(sheet[idx]))
          => /\ Get(out'[Len(out')], "product cible") = CategoryProduct(sheet[idx])
             /\ Get(out'[Len(out')], "company") =
                    IF pipeline = "insagCneIfV3" /\ FormNameHasCne(sheet[idx])
                    THEN SecondaryCompany
                    ELSE CategoryCompany(sheet[idx])]_vars

\* backend/server.js replaced the company and product an Alger row came with
C23_Witness ==
    /\ pipeline = "insagCneIf"
    /\ idx = 2
    /\ Len(out) = 1
    /\ AlgerCase(sheet[1])
    /\ NonEmpty(sheet[1], "company") /\ Get(sheet[1], "company") # MainCompany
    /\ NonEmpty(sheet[1], "product cible") /\ Get(sheet[1], "product cible") # ProductMos
    /\ Get(out[1], "company") = MainCompany
    /\ Get(out[1], "product cible") = ProductMos

\* the v3 revision gave a finance row the secondary company
C23_WitnessV3 ==
    /\ pipeline = "insagCneIfV3"
    /\ idx = 2
    /\ Len(out) = 1
    /\ FinanceCase(sheet[1])
    /\ Get(out[1], "company") = SecondaryCompany
    /\ Get(out[1], "product cible") = ProductSfe

C23_WitnessFinance ==
    /\ pipeline = "insagCneIf"
    /\ idx = 2
    /\ Len(out) = 1
    /\ FinanceCase(sheet[1])
    /\ FormNameHasCne(sheet[1])
    /\ Get(out[1], "company") = MainCompany
    /\ Get(out[1], "product cible") = ProductSfe

(***************************************************************************)
(* The upload form (frontend/src/Form.tsx): files, option toggles, email,  *)
(* and the Process button.  Only the number of files is kept.              *)
(***************************************************************************)
MaxFormFiles == 3

PipelineOptions == {"lacInfo", "awareness", "insagCneIf"}

\* handleOptionChange with no special cases: the option is flipped, nothing else
handleOptionChangePlain(prevOptions, option) ==
    [prevOptions EXCEPT ![option] = ~prevOptions[option]]

\* the updater handleOptionChange passes to setSelectedOptions
handleOptionChange(prevOptions, option) ==
    LET newOptions == [prevOptions EXCEPT ![option] = ~prevOptions[option]] IN
    IF option = "compareAndClean" /\ ~prevOptions[option]
    THEN [lacInfo |-> FALSE, awareness |-> FALSE, insagCneIf |-> FALSE,
          compareAndClean |-> TRUE]
    ELSE IF option # "compareAndClean" /\ prevOptions.compareAndClean
            /\ ~prevOptions[option]
         THEN [newOptions EXCEPT !.compareAndClean = FALSE]
         ELSE newOptions

\* the disabled attribute of an option's checkbox
checkboxDisabled(f, option) ==
    option # "compareAndClean" /\ f.selectedOptions.compareAndClean

\* the disabled attribute of the Process button
buttonDisabled(f) ==
    \/ f.processing
    \/ f.files = 0
    \/ (f.selectedOptions.compareAndClean /\ f.files # 2)

ErrorStatus(message) == [type |-> <<"e","r","r","o","r">>, message |-> message]

UploadAtLeastOneMessage == <<"P","l","e","a","s","e"," ","u","p","l","o","a","d"," ","a","t"," ","l","e","a","s","t"," ","o","n","e"," ","f","i","l","e">>
FormExactlyTwoMessage == <<"C","o","m","p","a","r","e"," ","a","n","d"," ","C","l","e","a","n"," ","r","e","q","u","i","r","e","s"," ","e","x","a","c","t","l","y"," ","2"," ","f","i","l","e","s">>
SelectOptionMessage == <<"P","l","e","a","s","e"," ","s","e","l","e","c","t"," ","a","t"," ","l","e","a","s","t"," ","o","n","e"," ","p","r","o","c","e","s","s","i","n","g"," ","o","p","t","i","o","n">>
FormValidEmailMessage == <<"P","l","e","a","s","e"," ","e","n","t","e","r"," ","a"," ","v","a","l","i","d"," ","e","m","a","i","l"," ","a","d","d","r","e","s","s">>
ProcessingFailedMessage == <<"P","r","o","c","e","s","s","i","n","g"," ","f","a","i","l","e","d">>
NetworkErrorMessage == <<"N","e","t","w","o","r","k"," ","e","r","r","o","r","."," ","P","l","e","a","s","e"," ","t","r","y"," ","a","g","a","i","n",".">>

\* the checks of handleProcess before the upload: the status of the first
\* one that fails, NoStatus when all pass
handleProcessChecks(f) ==
    IF f.files = 0 THEN ErrorStatus(UploadAtLeastOneMessage)
    ELSE IF f.selectedOptions.compareAndClean /\ f.files # 2
    THEN ErrorStatus(FormExactlyTwoMessage)
    ELSE IF \A o \in OptionNames : ~f.selectedOptions[o]
    THEN ErrorStatus(SelectOptionMessage)
    ELSE IF f.email = <<>> \/ ~includes(f.email, <<"@">>)
    THEN ErrorStatus(FormValidEmailMessage)
    ELSE NoStatus

\* the message shown after a successful response
successMessage(n, dupes, email) ==
    LET baseMsg == <<DigitChars[n + 1]>> \o <<" ","p","r","o","c","e","s","s","e","d"," ","f","i","l","e">>
                   \o (IF n = 1 THEN <<>> ELSE <<"s">>)
                   \o <<" ","s","e","n","t"," ","t","o"," ">> \o email \o <<".">>
        dupMsg == IF dupes > 0
                  THEN <<" ","(">> \o <<DigitChars[dupes + 1]>> \o <<" ","d","u","p","l","i","c","a","t","e","s"," ","r","e","m","o","v","e","d",")",".">>
                  ELSE <<>>
    IN baseMsg \o dupMsg

FormEmails == {<<>>, <<"u","s","e","r">>, <<"u","@","x",".","i","o">>}

InitForm ==
    /\ NoRequestInFlight
    /\ NoFormInUse
    /\ pipeline = "none"
    /\ sheet = <<>>
    /\ idx = 1
    /\ out = <<>>
    /\ row = <<>>
    /\ prev = <<>>
    /\ last = "none"
    /\ calls = 0

FormStep(f) ==
    /\ form' = f
    /\ UNCHANGED <<reqVars, pipeline, sheet, idx, out, row, prev, last, calls>>

\* a click on an option's checkbox
ToggleOption(option) ==
    /\ ~checkboxDisabled(form, option)
    /\ FormStep([form EXCEPT
           !.selectedOptions = handleOptionChange(form.selectedOptions, option)])

\* handleFileUpload: the chosen files are appended, the status is cleared
HandleFileUpload(n) ==
    /\ form.files + n <= MaxFormFiles
    /\ FormStep([form EXCEPT !.files = @ + n, !.status = NoStatus])

\* removeFile
RemoveFile ==
    /\ form.files > 0
    /\ FormStep([form EXCEPT !.files = @ - 1])

\* typing in the email field
SetEmail(e) ==
    /\ e # form.email
    /\ FormStep([form EXCEPT !.email = e])

\* handleProcess up to the fetch: a failed check sets the status and returns
HandleProcess ==
    /\ ~buttonDisabled(form)
    /\ LET failed == handleProcessChecks(form) IN
       IF failed # NoStatus
       THEN FormStep([form EXCEPT !.status = failed])
       ELSE FormStep([form EXCEPT !.processing = TRUE, !.status = NoStatus])

\* the response is ok and successful: the inputs are cleared
ResponseSuccess(n, dupes) ==
    /\ form.processing
    /\ FormStep([form EXCEPT
           !.status = [type |-> <<"s","u","c","c","e","s","s">>,
                       message |-> successMessage(n, dupes, form.email)],
           !.files = 0,
           !.selectedOptions = AllOptionsOff,
           !.email = <<>>,
           !.processing = FALSE])

\* the response is an error, or fetch throws
ResponseError(message) ==
    /\ form.processing
    /\ FormStep([form EXCEPT !.status = ErrorStatus(message), !.processing = FALSE])

NextForm ==
    \/ \E option \in OptionNames : ToggleOption(option)
    \/ \E n \in 1..2 : HandleFileUpload(n)
    \/ RemoveFile
    \/ \E e \in FormEmails : SetEmail(e)
    \/ HandleProcess
    \/ \E n \in 1..2, dupes \in 0..1 : ResponseSuccess(n, dupes)
    \/ \E message \in {ProcessingFailedMessage, NetworkErrorMessage} :
          ResponseError(message)

SpecForm == InitForm /\ [][NextForm]_vars

(***************************************************************************)
(* C24.  In the upload form compareAndClean is never selected together     *)
(* with lacInfo, awareness or insagCneIf.  From every state the form       *)
(* reaches, whichever option handleOptionChange is called with: selecting  *)
(* compareAndClean clears the three pipeline options, selecting a pipeline *)
(* option while compareAndClean is on clears compareAndClean, and the      *)
(* result again has compareAndClean on its own or off.                     *)
(***************************************************************************)
Exclusive(options) ==
    options.compareAndClean => \A o \in PipelineOptions : ~options[o]

TogglesKeepExclusive(options) ==
    \A option \in OptionNames :
        LET new == handleOptionChange(options, option) IN
        /\ Exclusive(new)
        /\ new[option] = ~options[option]
        /\ (option = "compareAndClean" /\ ~options.compareAndClean)
              => \A o \in PipelineOptions : ~new[o]
        /\ (option \in PipelineOptions /\ options.compareAndClean /\ ~options[option])
              => ~new.compareAndClean

C24_CompareAndCleanExclusive ==
    /\ Exclusive(form.selectedOptions)
    /\ TogglesKeepExclusive(form.selectedOptions)

\* compareAndClean was selected: it is on, alone, in a form that is in use
C24_Witness ==
    /\ form.selectedOptions.compareAndClean
    /\ form.files = 2
    /\ form.processing

\* several pipeline options are on together, compareAndClean is off
C24_WitnessPipelines ==
    /\ form.selectedOptions.lacInfo
    /\ form.selectedOptions.awareness
    /\ ~form.selectedOptions.compareAndClean


(***************************************************************************)
(* C25.  The last rule group of assignProductFromText (keywords 'Global',  *)
(* 'management opérationnel', 'GMBA') is never the matching group of a     *)
(* row: each of its keywords has an upper-case or accented character,      *)
(* the search text has none, so no keyword of the group occurs in it.      *)
(***************************************************************************)
LastGroup == Len(patterns)

HasUpperOrAccent(s) ==
    \E i \in 1..Len(s) : IndexIn(UpperCase, s[i]) # 0 \/ IndexIn(Accented, s[i]) # 0

C25_LastGroupNeverMatches ==
    /\ matchingGroup(allText(row)) # LastGroup
    /\ ~groupMatches(allText(row), LastGroup)
    /\ ~HasUpperOrAccent(allText(row))
    /\ \A j \in 1..Len(patterns[LastGroup].keywords) :
          HasUpperOrAccent(patterns[LastGroup].keywords[j])

\* the classifier ran on a row that names 'Global GMBA' and left it unclassified
C25_Witness ==
    /\ last = "assignProductFromText"
    /\ \E i \in 1..Len(row) : includes(row[i].v, <<"G","l","o","b","a","l">>) /\ includes(row[i].v, <<"G","M","B","A">>)
    /\ ~NonEmpty(row, "product cible")
    /\ matchingGroup(allText(row)) = 0

\* the same for 'Management Opérationnel'
C25_WitnessManagement ==
    /\ last = "assignProductFromText"
    /\ \E i \in 1..Len(row) : toLowerCase(row[i].v) = <<"m","a","n","a","g","e","m","e","n","t"," ","o","p","é","r","a","t","i","o","n","n","e","l">>
    /\ ~NonEmpty(row, "product cible")


(***************************************************************************)
(* C26.  In LAC Info and Awareness every emitted row whose opportunité is  *)
(* 'Licence Science Commercial et marketing' has a non-empty 'product      *)
(* cible': the value the input row had when it had one, otherwise          *)
(* product_template_mba_dmk when the first rule group matches the row's    *)
(* text and product_template_ms_mrk when it does not, because the label    *)
(* itself contains 'marketing'.                                            *)
(***************************************************************************)
\* the row as the classifier read it: without the fields the classifier wrote
AsClassified(rowOut, rowIn) ==
    IF NonEmpty(rowIn, "product cible") THEN rowOut
    ELSE IF NonEmpty(rowIn, "company") THEN Delete(rowOut, "product cible")
    ELSE Delete(Delete(rowOut, "product cible"), "company")

ClassifiedAsCommerce(rowOut, rowIn) ==
    LET given == Get(rowIn, "product cible")
        product == Get(rowOut, "product cible")
    IN  /\ product # <<>>
        /\ given # <<>> => product = given
        /\ given = <<>> =>
              product = IF groupMatches(allText(AsClassified(rowOut, rowIn)), 1)
                        THEN ProductDmk ELSE ProductMrk

C26_RelabeledRowsClassified ==
    pipeline \in {"lacInfo", "awareness"} =>
        \A i \in 1..Len(out) :
            OutOpp(i) = LicenceCommerce => ClassifiedAsCommerce(out[i], sheet[i])

\* a row that does not mention marketing is relabeled and then classified by the label
C26_Witness ==
    /\ pipeline = "lacInfo"
    /\ Len(out) >= 1
    /\ Get(sheet[1], "form_name") = <<"L","A","C"," ","2","0","2","5">>
    /\ ~includes(allText(sheet[1]), <<"m","a","r","k","e","t","i","n","g">>)
    /\ OutOpp(1) = LicenceCommerce
    /\ Get(out[1], "product cible") = ProductMrk

\* the same in Awareness, with an earlier group matching
C26_WitnessAwarenessDmk ==
    /\ pipeline = "awareness"
    /\ Len(out) >= 1
    /\ ~NonEmpty(sheet[1], "product cible")
    /\ OutOpp(1) = LicenceCommerce
    /\ Get(out[1], "product cible") = ProductDmk

\* the input row's own value is kept
C26_WitnessKept ==
    /\ pipeline \in {"lacInfo", "awareness"}
    /\ Len(out) >= 1
    /\ OutOpp(1) = LicenceCommerce
    /\ Get(out[1], "product cible") = <<"p","r","o","d","u","i","t","_","x">>


(***************************************************************************)
(* C27.  compareAndClean treats email values that are not strings          *)
(* asymmetrically.  The email of a row is the first truthy value among the *)
(* seven email columns: a numeric zero is passed over like an empty cell.  *)
(* A row of the older file whose email is not a string contributes nothing *)
(* to the comparison; a row of the newer file whose email is not a string  *)
(* makes the call throw (toLowerCase is not a function of the value), and  *)
(* nothing is returned.                                                    *)
(***************************************************************************)
BothRead == Called /\ Len(req.files) = 2 /\ File1.readable /\ File2.readable

\* the first value of the email columns that is not the empty string
FirstNonEmpty(r) ==
    IF \E i \in 1..Len(EmailColumns) : Get(r, EmailColumns[i]) # <<>>
    THEN Get(r, EmailColumns[CHOOSE i \in 1..Len(EmailColumns) :
                                /\ Get(r, EmailColumns[i]) # <<>>
                                /\ \A j \in 1..(i - 1) : Get(r, EmailColumns[j]) = <<>>])
    ELSE <<>>

NonStringFirst(r) == ~IsString(FirstNonEmpty(r))

StringFirst(r) == ~NonStringFirst(r)

WithoutNonStringFirst(f) == [f EXCEPT !.sheets = <<SelectSeq(RowsOf(f), StringFirst)>>]

ThrewTypeError == pc = "thrown" /\ error = ToLowerCaseTypeError /\ processed = <<>>

\* as stated for the first non-empty value: violated by a numeric zero
C27_NonStringEmailAsymmetry ==
    BothRead =>
        /\ EmailSetOf(OlderFile) = EmailSetOf(WithoutNonStringFirst(OlderFile))
        /\ (\E i \in 1..Len(RowsOf(NewerFile)) : NonStringFirst(RowsOf(NewerFile)[i]))
              => ThrewTypeError

C27_TruthyNonStringAsymmetry ==
    BothRead =>
        LET strings == NoNumberEmail(NewerFile) IN
        /\ ~strings => ThrewTypeError
        /\ strings =>
              /\ Returned
              /\ Result.buffer = ExpectedKept(NewerFile, OlderFile)

\* the newer file has a row with a numeric email: the call throws
C27_Witness ==
    /\ BothRead
    /\ ~NoNumberEmail(NewerFile)
    /\ ThrewTypeError

\* only the older file has such a row: the call returns and the row played no part
C27_WitnessOlder ==
    /\ BothRead
    /\ ~NoNumberEmail(OlderFile)
    /\ Returned
    /\ Result.duplicatesRemoved > 0

\* a numeric zero in the newer file is passed over
C27_WitnessZero ==
    /\ BothRead
    /\ Returned
    /\ \E i \in 1..Len(Result.buffer) : Get(Result.buffer[i], "email") = <<NumberTag, "0">>


\* the same at the level of the request: the handler's catch block answers
\* 500 with the TypeError's message, and nothing is sent
C27_RequestAborted ==
    (/\ Answered /\ UsesClean /\ ReachesParsing /\ AllReadable
     /\ ~NoNumberEmail(NewerFile))
    => /\ response = Reply(500, ToLowerCaseTypeError)
       /\ NothingDelivered

C27_WitnessRequest ==
    /\ Answered /\ UsesClean /\ ReachesParsing /\ AllReadable
    /\ ~NoNumberEmail(NewerFile)
    /\ response.status = 500

\* the file with the numeric email is the older one: the request goes through
C27_WitnessRequestOlder ==
    /\ Answered /\ UsesClean /\ ReachesParsing /\ AllReadable
    /\ ~NoNumberEmail(OlderFile)
    /\ response.success


(***************************************************************************)
(* C28.  When both file names yield the same date the second uploaded file *)
(* is the newer one, and when a name yields no date the first uploaded     *)
(* file is; in both cases the same two files uploaded in the other order   *)
(* are cleaned the other way round: the file that was the reference is     *)
(* cleaned, and the file that was cleaned is the reference.                *)
(***************************************************************************)
SameDate == BothDated /\ DateOf(File1).time = DateOf(File2).time

NoDate == Len(req.files) = 2 /\ (DateOf(File1).null \/ DateOf(File2).null)

\* the call on the two files in the other order cleans 'cleaned' against 'reference'
SwappedCleans(call, cleaned, reference) ==
    ~call.thrown =>
        /\ call.result.newerFileName = cleaned.originalname
        /\ call.result.olderFileName = reference.originalname
        /\ call.result.buffer = ExpectedKept(cleaned, reference)

C28_TieAndFallbackFollowOrder ==
    (Called /\ Len(req.files) = 2 /\ (SameDate \/ NoDate)) =>
        LET n == NewerIdx IN
        /\ SameDate => n = 2 /\ determineNewerFile(File2, File1, req.year) = 2
        /\ NoDate => n = 1 /\ determineNewerFile(File2, File1, req.year) = 1
        /\ Returned =>
              /\ Result.newerFileName = req.files[n].originalname
              /\ Result.buffer = ExpectedKept(req.files[n], req.files[3 - n])
        /\ SwappedCleans(compareAndClean(<<File2, File1>>, req.year),
                         req.files[3 - n], req.files[n])

\* two different names with the same date: the second upload is cleaned
C28_Witness ==
    /\ Returned
    /\ SameDate
    /\ File1.originalname # File2.originalname
    /\ Result.newerFileName = File2.originalname
    /\ Result.buffer # ExpectedKept(File1, File2)

\* a name without a date: the first upload is cleaned
C28_WitnessNoDate ==
    /\ Returned
    /\ NoDate
    /\ File1.originalname # File2.originalname
    /\ Result.newerFileName = File1.originalname
    /\ Result.buffer # ExpectedKept(File2, File1)


(***************************************************************************)
(* C29.  sendMail and the 30-second timer race and neither cancels the     *)
(* other.  When the timer fires while sendMail is in flight the request is *)
(* answered with the timeout error and the send stays in flight; when      *)
(* sendMail settles first the timer stays armed.  A request is answered    *)
(* once: no response is sent before the handler is done, one is sent when  *)
(* it is done and it never changes afterwards, and while the handler       *)
(* awaits the race both the send and the timer are still pending.          *)
(***************************************************************************)
TimerFiresFirst == pc = "awaiting" /\ timer = "armed" /\ timer' = "fired"

MailSettles == mail = "inflight" /\ mail' \in {"delivered", "failed"}

C29_RaceWithoutCancel ==
    [][/\ TimerFiresFirst =>
             /\ mail = "inflight" /\ mail' = "inflight"
             /\ pc' = "done"
             /\ response' = Reply(500, TimeoutMessage)
       /\ MailSettles => timer' = timer /\ timer \in {"armed", "fired"}
       /\ (timer = "armed" /\ timer' = "fired") => mail' = mail
       /\ pc # "done" => response = NoResponse
       /\ pc' = "done" => response' # NoResponse
       /\ pc = "done" => (pc' = "done" /\ response' = response)
       /\ pc' = "awaiting" => (mail' = "inflight" /\ timer' = "armed")
       /\ sent' # sent => (pc = "received" /\ Len(sent') = 1)]_vars

\* the caller was told the request failed, and the email was delivered afterwards
C29_Witness ==
    /\ Answered
    /\ response = Reply(500, TimeoutMessage)
    /\ timer = "fired"
    /\ mail = "delivered"
    /\ Len(sent) = 1

\* the request succeeded and the timer, never cleared, fired afterwards
C29_WitnessLateTimer ==
    /\ Answered
    /\ response.success
    /\ mail = "delivered"
    /\ timer = "fired"


(***************************************************************************)
(* C30.  Each of the three pipelines of backend/server.js emits exactly    *)
(* one output row per input row, in input order: after n rows were read    *)
(* the output has n rows and its i-th row is the i-th input row processed, *)
(* so that rowCount is the number of rows read; Insag CNE IF drops none.   *)
(* The v3 revision never emits more rows than it read, and can emit fewer. *)
(***************************************************************************)
RowsRead == idx - 1

C30_OneRowPerInputRow ==
    /\ pipeline \in ServerPipelines =>
          /\ Len(out) = RowsRead
          /\ \A i \in 1..Len(out) : out[i] = pipelineRow(pipeline, sheet[i])
    /\ pipeline = "insagCneIfV3" => Len(out) <= RowsRead

\* Insag CNE IF read two rows, one of them a row the v3 revision skips, and emitted both
C30_Witness ==
    /\ pipeline = "insagCneIf"
    /\ Len(sheet) = 2
    /\ RowsRead = 2
    /\ SkipCase(sheet[1])
    /\ ~SkipCase(sheet[2])
    /\ Len(out) = 2

\* the v3 revision read two rows and emitted one
C30_WitnessV3 ==
    /\ pipeline = "insagCneIfV3"
    /\ RowsRead = 2
    /\ Len(out) = 1

C30_WitnessLac ==
    /\ pipeline \in {"lacInfo", "awareness"}
    /\ RowsRead = 2
    /\ Len(out) = 2
    /\ sheet[1] # sheet[2]

\* the number of rows of all sheets of all files
RECURSIVE SheetRows(_)
SheetRows(sheets) == IF sheets = <<>> THEN 0 ELSE Len(Head(sheets)) + SheetRows(Tail(sheets))

RECURSIVE TotalRows(_)
TotalRows(files) ==
    IF files = <<>> THEN 0 ELSE SheetRows(Head(files).sheets) + TotalRows(Tail(files))

\* the same for the results of a request: every pipeline result has as many
\* rows as the uploaded files have, and rowCount says so
C30_RowCountInRequest ==
    (pc = "awaiting" /\ ~UsesClean) =>
        \A k \in 1..Len(processed) :
            /\ processed[k].rowCount = TotalRows(req.files)
            /\ Len(processed[k].buffer) = processed[k].rowCount

C30_WitnessRequest ==
    /\ pc = "awaiting"
    /\ ~UsesClean
    /\ Len(req.files) = 2
    /\ Len(processed) = 3
    /\ processed[2].rowCount = 3

====
